---------------------------- MODULE Spec2Model ----------------------------
(***************************************************************************)
(* A model of the metrics ingestion store and the usage aggregator of      *)
(* dashboard.py.                                                           *)
(*                                                                         *)
(* Time is in seconds, as time.time() gives it.  The clock advances by     *)
(* jumps of SmallDelta seconds or of one whole retention window, so that   *)
(* both the 60 second constants (flush interval, usage cache TTL) and the  *)
(* 14 day retention window meet their boundaries within a few jumps.       *)
(***************************************************************************)
EXTENDS Integers, Sequences, FiniteSets, TLC

(***************************************************************************)
(* Bounds of the model.                                                    *)
(***************************************************************************)
\* Jumps of the clock in one behaviour.
MaxTicks == 1
\* Lines the agent adds to a transcript in one behaviour.
MaxWrites == 1
\* Characters of a file given to the tail reader alone.
MaxBytes == 6
\* Lines of a transcript given to a timeline or sub-agent handler, and the
\* characters of each line.
MaxLines == 3
LineBytes == 2
\* api_subagents scans tail_lines[-20:]; the model runs the same code with
\* fewer lines than a transcript of MaxLines lines has.
TAIL_LINES_SCANNED == 2
\* Day buckets of a usage aggregation handed to the trend analysis: more
\* than the seven it looks at.
MaxBuckets == 8
\* Entries of a session index.
MaxEntries == 2
\* Lines the pipe between a tail process and the handler holds before tail
\* blocks.
PipeLines == 2
\* Process restarts in one behaviour.
MaxRestarts == 1
\* The short clock jump, in seconds (shorter than the 60 second constants).
SmallDelta == 30
\* MAX_STORE_ENTRIES is 10_000 in the source (line 65); the model runs the
\* same code with the smallest cap at which a list overflows.
MAX_STORE_ENTRIES == 1

\* api_transcript_events returns events[-500:]; the model runs the same
\* code with a limit a transcript of MaxLines lines can exceed.
EVENTS_RETURNED == 4

(***************************************************************************)
(* Program constants.                                                      *)
(***************************************************************************)
STORE_RETENTION_DAYS == 14
SecondsPerDay == 86400
FLUSH_INTERVAL == 60

\* Samples pushed through _add_metric in one behaviour: enough to overflow
\* one category.
MaxAppends == MAX_STORE_ENTRIES + 1
\* The categories samples are pushed to in the model: the first and the last
\* in the store's key order (_add_metric treats every category alike).
PushedCategories == {"tokens", "webhooks"}

RetentionSeconds == STORE_RETENTION_DAYS * SecondsPerDay
\* The process starts well after the epoch: time.time() exceeds the
\* retention window, so a cutoff is never negative.
StartTime == 2 * RetentionSeconds

(***************************************************************************)
(* The store: five categories, in the order the dict literal gives them.   *)
(***************************************************************************)
Keys == <<"tokens", "cost", "runs", "messages", "webhooks">>
Categories == {Keys[i] : i \in 1..Len(Keys)}

\* One element of a category list.  shape tells what the element is:
\*   "sample"        a dict with a numeric 'timestamp'
\*   "no_timestamp"  a dict without 'timestamp' (e.get('timestamp', 0) is 0)
\*   "str_timestamp" a dict whose 'timestamp' is not a number
\*   "non_dict"      not a dict at all (a number, a string, null)
\* The last three only come from a snapshot file; _add_metric's callers
\* always pass a dict with 'timestamp': time.time().
Sample(v, ts) == [value |-> v, timestamp |-> ts, shape |-> "sample"]
NoTimestamp(v) == [value |-> v, timestamp |-> 0, shape |-> "no_timestamp"]
StrTimestamp(v) == [value |-> v, timestamp |-> 0, shape |-> "str_timestamp"]
NonDict(v) == [value |-> v, timestamp |-> 0, shape |-> "non_dict"]

EmptyStore == [c \in Categories |-> <<>>]

\* lst[-n:]
LastN(lst, n) ==
  IF Len(lst) <= n THEN lst ELSE SubSeq(lst, Len(lst) - n + 1, Len(lst))

\* lst[:n], what a slip in the slice would keep.
FirstN(lst, n) ==
  IF Len(lst) <= n THEN lst ELSE SubSeq(lst, 1, n)

(***************************************************************************)
(* Files.  A file is what json.load makes of it.                           *)
(*   "missing"     os.path.exists is false                                 *)
(*   "not_json"    json.load raises                                        *)
(*   "partial"     a prefix of a dump: json.load raises                    *)
(*   "non_object"  valid JSON, not an object                               *)
(*   "object"      an object; form[c] tells whether key c is absent, holds *)
(*                 a list (cats[c]) or holds something else                *)
(***************************************************************************)
File(kind, form, cats, last) ==
  [kind |-> kind, form |-> form, cats |-> cats, last_received |-> last]

AllForm(f) == [c \in Categories |-> f]
MissingFile == File("missing", AllForm("absent"), EmptyStore, 0)
NotJsonFile == File("not_json", AllForm("absent"), EmptyStore, 0)
NonObjectFile == File("non_object", AllForm("absent"), EmptyStore, 0)
EmptyTextFile == File("partial", AllForm("absent"), EmptyStore, 0)

\* json.dump of the dict _save_metrics_to_disk builds: every category a
\* list, plus _last_received.  (_saved_at, a time.time() the program never
\* reads back, is left out of the file's model.)
JsonDump(data) ==
  File("object", AllForm("list"), data.cats, data.last_received)
\* The file while json.dump is still writing it.
JsonDumpPrefix(data) ==
  File("partial", AllForm("absent"), EmptyStore, 0)

MetricsPath == "metrics.json"
\* tmp = path + '.tmp'
TmpPathSame == MetricsPath
TmpPath == "metrics.json.tmp"
Paths == {MetricsPath, "metrics.json.tmp"}

(***************************************************************************)
(* Threads: the background flush thread and the request threads of the     *)
(* threaded Flask server.                                                  *)
(***************************************************************************)
FlushThread == "flush"
Requests == {"req1", "req2"}
Threads == {FlushThread} \cup Requests
NoThread == "none"

VARIABLES
  now,                 \* time.time()
  ticks,               \* clock jumps so far
  metrics_store,       \* the dict of category lists
  otel_last_received,  \* _otel_last_received
  metrics_lock,        \* the thread holding _metrics_lock, or NoThread
  disk,                \* the snapshot file and its temporary file
  started,             \* main() has run _load_metrics_from_disk
  pc,                  \* each thread's position
  flush,               \* locals of the flush thread
  req,                 \* locals of each request thread
  nextId,              \* value of the next pushed sample
  restarts,            \* process restarts so far
  history,             \* what each category started with, then every
                       \* element appended to it, in order
  lastCycle,           \* how the last flush cycle ended
  transcripts,         \* the *.jsonl files of the sessions directory
  writes,              \* lines the agent has added to them so far
  usage_cache,         \* _usage_cache
  resp,                \* what each request thread's last /api/usage returned
  acc,                 \* daily_tokens, daily_cost, ... of each thread's
                       \* aggregation
  lastScan,            \* the last two transcript aggregations
  lastFold,            \* the last two aggregations of pushed metrics
  call,                \* the read-only handler or helper being run, with
                       \* what it was given
  ret,                 \* what it returned
  streams              \* the /api/logs-stream response each request thread
                       \* is serving

storeVars == <<metrics_store, otel_last_received, metrics_lock>>
usageVars == <<transcripts, writes, usage_cache, resp, acc, lastScan, lastFold>>
viewVars == <<call, ret, streams>>
\* Everything but the read-only handlers' variables.
serverVars ==
  <<now, ticks, metrics_store, otel_last_received, metrics_lock, disk,
    started, pc, flush, req, nextId, restarts, history, lastCycle,
    transcripts, writes, usage_cache, resp, acc, lastScan, lastFold>>
vars == <<now, ticks, metrics_store, otel_last_received, metrics_lock, disk,
          started, pc, flush, req, nextId, restarts, history, lastCycle,
          transcripts, writes, usage_cache, resp, acc, lastScan, lastFold,
          call, ret, streams>>

(***************************************************************************)
(* Snapshot files a process may find at startup.                           *)
(***************************************************************************)
FreshTime == StartTime - SmallDelta
OldTime == StartTime - RetentionSeconds

\* {"tokens": [7]}
NonDictElementFile ==
  File("object", [AllForm("absent") EXCEPT !["tokens"] = "list"],
       [EmptyStore EXCEPT !["tokens"] = <<NonDict(101)>>], 0)
\* {"tokens": 7, "cost": [sample], "runs": [{"timestamp": "x"}]}
MixedShapeFile ==
  File("object",
       [AllForm("absent") EXCEPT !["tokens"] = "non_list", !["cost"] = "list",
                                 !["runs"] = "list"],
       [EmptyStore EXCEPT !["cost"] = <<Sample(102, FreshTime)>>,
                          !["runs"] = <<StrTimestamp(103)>>], 0)
\* A well-formed snapshot of an earlier run: a list longer than the cap,
\* one sample exactly as old as the retention window, a dict with no
\* timestamp.
EarlierRunFile ==
  File("object", AllForm("list"),
       [EmptyStore EXCEPT
          !["tokens"] = <<Sample(104, OldTime), Sample(105, FreshTime)>>,
          !["cost"] = <<NoTimestamp(106)>>,
          !["messages"] = [i \in 1..(MAX_STORE_ENTRIES + 1) |->
                             Sample(110 + i, FreshTime)]],
       FreshTime)

\* {"runs": [7]}
NonDictRunFile ==
  File("object", [AllForm("absent") EXCEPT !["runs"] = "list"],
       [EmptyStore EXCEPT !["runs"] = <<NonDict(107)>>], 0)

InitialFiles ==
  {MissingFile, NotJsonFile, NonObjectFile, NonDictElementFile,
   MixedShapeFile, EarlierRunFile}

(***************************************************************************)
(* _expire_old_entries, per category.                                      *)
(***************************************************************************)
\* e.get('timestamp', 0) > cutoff raises for an element that is no dict
\* (AttributeError) or whose timestamp is no number (TypeError).
RaisesOn(e) == e.shape \in {"non_dict", "str_timestamp"}
Raises(lst) == \E i \in 1..Len(lst) : RaisesOn(lst[i])

IsNewer(e, cutoff) == e.timestamp > cutoff

\* [e for e in lst if e.get('timestamp', 0) > cutoff][-MAX_STORE_ENTRIES:]
KeptEntries(lst, cutoff) ==
  LastN(SelectSeq(lst, LAMBDA e : IsNewer(e, cutoff)), MAX_STORE_ENTRIES)

\* The loop over the categories from the k-th on, run without interruption;
\* it stops where the comprehension raises, leaving the categories before it
\* filtered and the rest as they were.
RECURSIVE ExpireFrom(_, _, _)
ExpireFrom(st, k, cutoff) ==
  IF k > Len(Keys) THEN st
  ELSE IF Raises(st[Keys[k]]) THEN st
  ELSE ExpireFrom([st EXCEPT ![Keys[k]] = KeptEntries(st[Keys[k]], cutoff)],
                  k + 1, cutoff)

(***************************************************************************)
(* _load_metrics_from_disk                                                 *)
(***************************************************************************)
\* metrics_store[key] = data[key][-MAX_STORE_ENTRIES:] for the keys that
\* hold a list.
LoadedLists(file, st) ==
  [c \in Categories |->
     IF file.form[c] = "list" THEN LastN(file.cats[c], MAX_STORE_ENTRIES)
     ELSE st[c]]

\* The store once _load_metrics_from_disk has returned.
LoadedStore(file, st, t) ==
  CASE file.kind = "missing" -> st
    [] file.kind \in {"not_json", "partial"} -> st
    [] file.kind = "non_object" -> ExpireFrom(st, 1, t - RetentionSeconds)
    [] OTHER -> ExpireFrom(LoadedLists(file, st), 1, t - RetentionSeconds)

\* A load that does not restore _otel_last_received.
LoadedLastReceivedKept(file, last) == last
\* _otel_last_received once _load_metrics_from_disk has returned.
LoadedLastReceived(file, last) ==
  IF file.kind = "object" THEN file.last_received ELSE last

(***************************************************************************)
(* Python dicts whose keys appear as they are first assigned.               *)
(***************************************************************************)
EmptyDict == [k \in {} |-> 0]
\* d.get(k, default)
DictGet(d, k, default) == IF k \in DOMAIN d THEN d[k] ELSE default
\* d[k] = v
DictPut(d, k, v) == [x \in (DOMAIN d) \cup {k} |-> IF x = k THEN v ELSE d[x]]
\* d[k] = d.get(k, 0) + v
DictAdd(d, k, v) == DictPut(d, k, DictGet(d, k, 0) + v)

\* datetime.fromtimestamp(ts).strftime('%Y-%m-%d'): the day a time falls in,
\* counted from the epoch.
DayOf(ts) == ts \div SecondsPerDay

(***************************************************************************)
(* Transcript files: each a sequence of lines, a line being what the        *)
(* handler can tell about it.                                               *)
(*   json     "invalid" (json.loads raises), "non_object", "object"         *)
(*   type     obj['type']                                                   *)
(*   message  "object", "absent", or "non_object" (a string, null)          *)
(*   usage    "dict", or "absent" (missing, empty or no dict)               *)
(*   tokens   usage['totalTokens']: a number, absent, or "non_number"       *)
(*   cost     usage['cost']: "total" (a dict with a numeric 'total'),       *)
(*            "absent", "bad_str" (total is a string float() rejects),      *)
(*            "bad_type" (total is null or a list)                          *)
(*   ts       obj['timestamp']: "iso", "number", "absent", "bad_str" (a     *)
(*            string fromisoformat rejects), "bad_type" (a list)            *)
(* Token counts are integers, costs whole millionths of a dollar.           *)
(***************************************************************************)
Line(json, type, message, usage, tokens, cost, model, ts) ==
  [json |-> json, type |-> type, message |-> message, usage |-> usage,
   tokens |-> tokens, cost |-> cost, model |-> model, ts |-> ts]

Number(n) == [form |-> "number", n |-> n]
Field(form) == [form |-> form, n |-> 0]
CostTotal(n) == [form |-> "total", n |-> n]
IsoTime(at) == [form |-> "iso", at |-> at]
TimeField(form) == [form |-> form, at |-> 0]

\* A well-formed usage message.
UsageLine(at, tokens, cost) ==
  Line("object", "message", "object", "dict", Number(tokens), CostTotal(cost),
       "model-a", IsoTime(at))
\* The same with a numeric timestamp and no cost.
UsageLineNoCost(at, tokens) ==
  Line("object", "message", "object", "dict", Number(tokens), Field("absent"),
       "model-b", [form |-> "number", at |-> at])
NotJsonLine == [UsageLine(0, 0, 0) EXCEPT !.json = "invalid"]
NonObjectLine == [UsageLine(0, 0, 0) EXCEPT !.json = "non_object"]
OtherTypeLine == [UsageLine(0, 0, 0) EXCEPT !.type = "session"]
NonObjectMessageLine(at, tokens) ==
  [UsageLine(at, tokens, 0) EXCEPT !.message = "non_object"]
NoUsageLine == [UsageLine(0, 0, 0) EXCEPT !.usage = "absent"]
NonNumberTokensLine(at) ==
  [UsageLine(at, 0, 1) EXCEPT !.tokens = Field("non_number")]
BadCostStringLine(at, tokens) ==
  [UsageLine(at, tokens, 0) EXCEPT !.cost = Field("bad_str")]
BadCostTypeLine(at, tokens) ==
  [UsageLine(at, tokens, 0) EXCEPT !.cost = Field("bad_type")]
BadTimestampLine(tokens) ==
  [UsageLine(0, tokens, 1) EXCEPT !.ts = TimeField("bad_str")]
NoTimestampLine(tokens) ==
  [UsageLine(0, tokens, 1) EXCEPT !.ts = TimeField("absent")]

\* What the body of the inner try does with a line, in the order of the code:
\*   "skip"   the line adds nothing and the loop goes on (a continue, an
\*            exception the inner except catches, or a falsy timestamp)
\*   "raise"  an exception the inner except does not catch
\*   "count"  the line is added to the day's buckets
LineOutcome(line) ==
  CASE line.json = "invalid" -> "skip"
    [] line.json = "non_object" -> "raise"
    [] line.type # "message" -> "skip"
    [] line.message = "non_object" -> "raise"
    [] line.message = "absent" -> "skip"
    [] line.usage # "dict" -> "skip"
    [] line.cost.form = "bad_str" -> "skip"
    [] line.cost.form = "bad_type" -> "raise"
    [] line.ts.form = "absent" -> "skip"
    [] line.ts.form = "bad_str" -> "skip"
    [] line.ts.form = "bad_type" -> "raise"
    [] line.tokens.form = "non_number" -> "raise"
    [] OTHER -> "count"

\* total_cost
LineCost(line) == IF line.cost.form = "total" THEN line.cost.n ELSE 0
\* tokens_data['totalTokens']
LineTokens(line) == IF line.tokens.form = "number" THEN line.tokens.n ELSE 0

\* _calculate_enhanced_costs.calc_cost with the 'default' prices, in
\* millionths of a dollar: 60% of the tokens at the input price and 40% at
\* the output price, both per million tokens.  No handler calls it.
INPUT_RATIO_TENTHS == 6
OUTPUT_RATIO_TENTHS == 4
DEFAULT_INPUT_PRICE == 15
DEFAULT_OUTPUT_PRICE == 45
calc_cost(tokens) ==
  IF tokens = 0 THEN 0
  ELSE (tokens * INPUT_RATIO_TENTHS * DEFAULT_INPUT_PRICE
        + tokens * OUTPUT_RATIO_TENTHS * DEFAULT_OUTPUT_PRICE) \div 10

\* daily_tokens, daily_cost, model_usage, session_costs.  counted is no
\* variable of the code: the transcript lines added so far, in order.
EmptyAccumulators ==
  [tokens |-> EmptyDict, cost |-> EmptyDict, models |-> EmptyDict,
   sessions |-> EmptyDict, run_durations |-> <<>>, counted |-> <<>>]

\* A handler that went on with what an earlier call had gathered.
NewAccumulatorsKept(old) == old
\* daily_tokens = {}; daily_cost = {}; model_usage = {}; session_costs = {}
NewAccumulators(old) == EmptyAccumulators

\* Lines 4113-4118 for one line.
Counted(a, line) ==
  [a EXCEPT !.tokens = DictAdd(@, DayOf(line.ts.at), LineTokens(line)),
            !.cost = DictAdd(@, DayOf(line.ts.at), LineCost(line)),
            !.models = DictAdd(@, line.model, LineTokens(line)),
            !.counted = Append(@, line)]

\* for line in f, from the i-th line on; stops where a line raises.
RECURSIVE FoldLines(_, _, _, _)
FoldLines(a, session_cost, lines, i) ==
  IF i > Len(lines)
  THEN [acc |-> a, session_cost |-> session_cost, raised |-> FALSE]
  ELSE LET outcome == LineOutcome(lines[i]) IN
       CASE outcome = "raise" ->
              [acc |-> a, session_cost |-> session_cost, raised |-> TRUE]
         [] outcome = "skip" -> FoldLines(a, session_cost, lines, i + 1)
         [] OTHER -> FoldLines(Counted(a, lines[i]),
                               session_cost + LineCost(lines[i]), lines, i + 1)

\* for fname in os.listdir(sessions_dir), from the k-th file on.  A file
\* whose line raised is left by the outer except Exception: continue, its
\* session cost never stored.
RECURSIVE FoldFiles(_, _, _)
FoldFiles(a, files, k) ==
  IF k > Len(files) THEN a
  ELSE LET r == FoldLines(a, 0, files[k], 1) IN
       FoldFiles(IF r.raised THEN r.acc
                 ELSE [r.acc EXCEPT !.sessions = DictPut(@, k, r.session_cost)],
                 files, k + 1)

\* The loops of _get_otel_usage_data over metrics_store['tokens'] and
\* metrics_store['cost']; entry.get raises for an element that is no dict,
\* datetime.fromtimestamp for a timestamp that is no number.
RECURSIVE FoldTokens(_, _, _)
FoldTokens(a, lst, i) ==
  IF i > Len(lst) THEN a
  ELSE FoldTokens([a EXCEPT !.tokens = DictAdd(@, DayOf(lst[i].timestamp),
                                               lst[i].value),
                            !.models = DictAdd(@, "unknown", lst[i].value)],
                  lst, i + 1)
RECURSIVE FoldCost(_, _, _)
FoldCost(a, lst, i) ==
  IF i > Len(lst) THEN a
  ELSE FoldCost([a EXCEPT !.cost = DictAdd(@, DayOf(lst[i].timestamp),
                                           lst[i].value)],
                lst, i + 1)
\* entry.get('duration_ms', 0) only needs a dict.
RunsRaise(lst) == \E i \in 1..Len(lst) : lst[i].shape = "non_dict"
RunDurations(lst) == [i \in 1..Len(lst) |-> lst[i].value]

RECURSIVE SumSeq(_)
SumSeq(s) == IF s = <<>> THEN 0 ELSE Head(s) + SumSeq(Tail(s))
\* sum(run_durations) / len(run_durations) if run_durations else 0, in
\* whole milliseconds.
AvgRunMs(durations) ==
  IF durations = <<>> THEN 0 ELSE SumSeq(durations) \div Len(durations)

\* The JSON a usage request answers with: the per-day buckets and what is
\* kept beside them (the 14-day table, the today/week/month sums, the trend
\* and the warnings are computed from the buckets and the date alone).
Result(source, a, avg, messages) ==
  [source |-> source, tokens |-> a.tokens, cost |-> a.cost,
   models |-> a.models, sessions |-> a.sessions, avgRunMs |-> avg,
   messageCount |-> messages]
\* _usage_cache['data'] is None; no answer yet.
NoResult == Result("none", EmptyAccumulators, 0, 0)
\* Flask's answer to a handler that raised: HTTP 500.
ErrorResponse == Result("error", EmptyAccumulators, 0, 0)

_USAGE_CACHE_TTL == 60
\* _usage_cache['data'] is not None and (now - _usage_cache['ts']) < TTL
CacheFresh(cache, t) ==
  cache.data.source # "none" /\ (t - cache.ts) < _USAGE_CACHE_TTL

\* _has_otel_data with only the token list looked at.
HasOtelDataTokensOnly(st) == Len(st["tokens"]) > 0
\* any(len(metrics_store[k]) > 0 for k in metrics_store)
HasOtelData(st) == \E k \in Categories : Len(st[k]) > 0

\* Sessions directories the process may run beside.
NoSessions == <<>>
\* A directory with one file per kind of line the handler does not count,
\* each between or before well-formed usage messages of two days.
MixedSessions ==
  << <<UsageLine(FreshTime, 1, 1), NotJsonLine, OtherTypeLine,
       UsageLine(FreshTime, 2, 1)>>,
     <<UsageLine(FreshTime, 4, 1), NonObjectLine, UsageLine(FreshTime, 8, 1)>>,
     <<BadCostStringLine(FreshTime, 16), NoUsageLine,
       UsageLine(OldTime, 32, 1)>>,
     <<NoTimestampLine(64), BadTimestampLine(128),
       UsageLineNoCost(OldTime, 256)>>,
     <<NonNumberTokensLine(FreshTime), UsageLine(FreshTime, 512, 1)>>,
     <<UsageLine(FreshTime, 1024, 1), NonObjectMessageLine(FreshTime, 2048),
       UsageLine(FreshTime, 4096, 1)>>,
     <<BadCostTypeLine(FreshTime, 8192), UsageLine(FreshTime, 16384, 1)>> >>

NoAggregation ==
  [valid |-> FALSE, input |-> <<>>, again |-> FALSE, tokens |-> EmptyDict,
   cost |-> EmptyDict, prevTokens |-> EmptyDict, prevCost |-> EmptyDict,
   counted |-> <<>>]

NoData == [cats |-> EmptyStore, last_received |-> 0]
\* before and seen are no locals of the code: before records the store as
\* the sweep found it when it took the lock, seen the _otel_last_received
\* that stood when the save copied the lists.
FlushIdle(wake) ==
  [cutoff |-> 0, k |-> 0, filtered |-> <<>>, data |-> NoData, wake |-> wake,
   before |-> EmptyStore, seen |-> 0]
\* had_data is no local of the code: it records whether a category held
\* anything when the usage request was made.
NoRequest ==
  [category |-> "none", entry |-> Sample(0, 0), start |-> 0,
   had_data |-> FALSE]

(***************************************************************************)
(* The tail reader of api_subagent_activity and api_subagents, on the      *)
(* characters of the file.  The transcripts are ASCII, one character a     *)
(* byte; the only whitespace in them is the newline.                       *)
(***************************************************************************)
\* The k-th character of line `line`; a newline.
Content(line, k) == [kind |-> "c", line |-> line, k |-> k]
NL == [kind |-> "nl", line |-> 0, k |-> 0]
IsSpace(c) == c.kind = "nl"

\* str.lstrip, str.rstrip, str.strip
RECURSIVE StripLeft(_)
StripLeft(data) ==
  IF data # <<>> /\ IsSpace(Head(data)) THEN StripLeft(Tail(data)) ELSE data
RECURSIVE StripRight(_)
StripRight(data) ==
  IF data # <<>> /\ IsSpace(data[Len(data)])
  THEN StripRight(SubSeq(data, 1, Len(data) - 1))
  ELSE data
Strip(data) == StripRight(StripLeft(data))

\* str.split('\n'): at least one piece, the empty one for the empty string.
RECURSIVE Split(_)
Split(data) ==
  IF \A i \in 1..Len(data) : data[i] # NL THEN <<data>>
  ELSE LET j == CHOOSE i \in 1..Len(data) :
                  data[i] = NL /\ \A h \in 1..(i - 1) : data[h] # NL IN
       <<SubSeq(data, 1, j - 1)>> \o Split(SubSeq(data, j + 1, Len(data)))

\* start = max(0, fsize - tail_size)
TailStart(fsize, tail_size) ==
  IF fsize - tail_size > 0 THEN fsize - tail_size ELSE 0

\* A reader that keeps the piece the window begins with.
DropPartialNever(lines, start) == lines
\* if start > 0: lines = lines[1:]
DropPartial(lines, start) == IF start > 0 THEN Tail(lines) ELSE lines

\* f.seek(start); data = f.read(); lines = data.strip().split('\n'), the
\* first piece dropped when the window does not begin the file.
TailLines(data, tail_size) ==
  LET start == TailStart(Len(data), tail_size) IN
    DropPartial(Split(Strip(SubSeq(data, start + 1, Len(data)))), start)

(***************************************************************************)
(* Transcript records as the timeline handlers see them.                   *)
(*   json    "invalid" (json.loads raises) or "object"                     *)
(*   type    obj['type']: "message", "model_change", or another            *)
(*   role    message['role']                                               *)
(*   form    message['content']: "list", "str" (a non-empty string),       *)
(*           "absent"                                                      *)
(*   blocks  the content blocks, all dicts: their type, the tool's name,   *)
(*           and their text or thinking once stripped: "empty", "short"    *)
(*           (one to five characters) or "some" (longer)                   *)
(*   ts      obj['timestamp'], which names the line                        *)
(***************************************************************************)
Block(btype, name, text) == [btype |-> btype, name |-> name, text |-> text]
TextBlock == Block("text", "", "some")
EmptyTextBlock == Block("text", "", "empty")
ThinkingBlock == Block("thinking", "", "some")
ExecBlock == Block("tool_use", "exec", "")
ReadBlock == Block("toolCall", "Read", "")
OtherToolBlock == Block("toolCall", "web_search", "")
ToolResultBlock == Block("tool_result", "", "some")
ImageBlock == Block("image", "", "")

Record(json, type, role, form, blocks) ==
  [json |-> json, type |-> type, role |-> role, form |-> form,
   blocks |-> blocks, ts |-> 0]
Message(role, blocks) == Record("object", "message", role, "list", blocks)
StringMessage(role) == Record("object", "message", role, "str", <<>>)
NotJsonRecord == Record("invalid", "", "", "absent", <<>>)
ModelChangeRecord == Record("object", "model_change", "", "absent", <<>>)

\* The lines transcripts are made of in the model.
RecordKinds ==
  {NotJsonRecord,
   ModelChangeRecord,
   StringMessage("user"),
   StringMessage("toolResult"),
   Message("user", <<TextBlock>>),
   Message("assistant", <<ThinkingBlock, TextBlock, ExecBlock>>),
   Message("assistant", <<ReadBlock, EmptyTextBlock, OtherToolBlock>>),
   Message("assistant", <<ToolResultBlock, TextBlock>>),
   Message("toolResult", <<TextBlock, ImageBlock, TextBlock>>),
   Message("toolResult", <<TextBlock, OtherToolBlock>>)}

\* A timeline event: its type, the timestamp of its line, and the content
\* blocks its text, tool name or preview is taken from.
Event(type, ts, blocks) == [type |-> type, ts |-> ts, blocks |-> blocks]

\* `continue` after a line json.loads rejects: the scan goes on with the
\* lines that follow.  As a break it would end there.
SkipLineStop(rest) == <<>>
SkipLine(rest) == rest

RECURSIVE Concat(_)
Concat(seqs) == IF seqs = <<>> THEN <<>> ELSE Head(seqs) \o Concat(Tail(seqs))

\* for block in content: the blocks in their order.  Scanning them from
\* the last one would give the other order.
BlockOrderReversed(n) == [i \in 1..n |-> n + 1 - i]
BlockOrder(n) == [i \in 1..n |-> i]

\* The indices of the text blocks of a record.
TextBlocksOf(rec) ==
  SelectSeq([i \in 1..Len(rec.blocks) |-> i],
            LAMBDA i : rec.blocks[i].btype = "text")

(***************************************************************************)
(* api_transcript_events                                                   *)
(***************************************************************************)
\* Lines 4445-4465 for the i-th block of a record.
TranscriptBlockEvents(rec, i) ==
  LET b == rec.blocks[i] IN
  CASE b.btype = "thinking" -> <<Event("thinking", rec.ts, <<i>>)>>
    [] b.btype = "text" /\ rec.role = "user" ->
         <<Event("user", rec.ts, <<i>>)>>
    [] b.btype = "text" /\ rec.role = "assistant" ->
         <<Event("agent", rec.ts, <<i>>)>>
    [] b.btype \in {"toolCall", "tool_use"} /\ b.name = "exec" ->
         <<Event("exec", rec.ts, <<i>>)>>
    [] b.btype \in {"toolCall", "tool_use"} /\ b.name \in {"Read", "read"} ->
         <<Event("read", rec.ts, <<i>>)>>
    [] b.btype \in {"toolCall", "tool_use"} ->
         <<Event("tool", rec.ts, <<i>>)>>
    [] OTHER -> <<>>

\* Lines 4434-4480 for one decoded line.
TranscriptRecordEvents(rec) ==
  IF rec.type # "message" THEN <<>>
  ELSE (CASE rec.form = "list" ->
               Concat([i \in 1..Len(rec.blocks) |->
                         TranscriptBlockEvents(
                           rec, BlockOrder(Len(rec.blocks))[i])])
          [] rec.form = "str" /\ rec.role = "user" ->
               <<Event("user", rec.ts, <<>>)>>
          [] rec.form = "str" /\ rec.role = "assistant" ->
               <<Event("agent", rec.ts, <<>>)>>
          [] rec.form = "str" /\ rec.role = "toolResult" ->
               <<Event("result", rec.ts, <<>>)>>
          [] OTHER -> <<>>)
       \o (IF rec.role = "toolResult" /\ rec.form = "list"
              /\ TextBlocksOf(rec) # <<>>
           THEN <<Event("result", rec.ts, TextBlocksOf(rec))>>
           ELSE <<>>)

\* for line in f
RECURSIVE TranscriptScan(_)
TranscriptScan(lines) ==
  IF lines = <<>> THEN <<>>
  ELSE IF Head(lines).json = "invalid"
       THEN TranscriptScan(SkipLine(Tail(lines)))
       ELSE TranscriptRecordEvents(Head(lines)) \o TranscriptScan(Tail(lines))

\* msg_count
MessageCount(lines) ==
  Len(SelectSeq(lines, LAMBDA r : r.json = "object" /\ r.type = "message"))

\* {'events': events[-500:], 'messageCount': ..., 'totalEvents': ...}
TranscriptEventsResult(lines) ==
  LET events == TranscriptScan(lines) IN
    [op |-> "transcript_events", status |-> 200,
     events |-> LastN(events, EVENTS_RETURNED),
     messageCount |-> MessageCount(lines), totalEvents |-> Len(events)]

(***************************************************************************)
(* api_subagent_activity                                                   *)
(***************************************************************************)
\* Lines 4695-4733 for the i-th block of a record.
ActivityBlockEvents(rec, i) ==
  LET b == rec.blocks[i] IN
  CASE b.btype \in {"tool_use", "toolCall"} ->
         <<Event("tool_call", rec.ts, <<i>>)>>
    [] b.btype \in {"tool_result", "toolResult"} ->
         <<Event("tool_result", rec.ts, <<i>>)>>
    [] b.btype = "text" /\ rec.role = "assistant" /\ b.text # "empty" ->
         <<Event("thinking", rec.ts, <<i>>)>>
    [] b.btype = "thinking" /\ b.text # "empty" ->
         <<Event("internal_thought", rec.ts, <<i>>)>>
    [] OTHER -> <<>>

\* Lines 4685-4739 for one decoded line.
ActivityRecordEvents(rec) ==
  CASE rec.type = "message" /\ rec.form = "list" ->
         Concat([i \in 1..Len(rec.blocks) |->
                   ActivityBlockEvents(rec, BlockOrder(Len(rec.blocks))[i])])
    [] rec.type = "model_change" -> <<Event("model_change", rec.ts, <<>>)>>
    [] OTHER -> <<>>

\* for raw in lines
RECURSIVE ActivityScan(_)
ActivityScan(lines) ==
  IF lines = <<>> THEN <<>>
  ELSE IF Head(lines).json = "invalid"
       THEN ActivityScan(SkipLine(Tail(lines)))
       ELSE ActivityRecordEvents(Head(lines)) \o ActivityScan(Tail(lines))

\* The characters of a transcript: every line LineBytes characters and a
\* newline.
Encode(lines) ==
  Concat([i \in 1..Len(lines) |->
            [k \in 1..LineBytes |-> Content(i, k)] \o <<NL>>])
\* json.loads(raw): the record of the line raw is the whole of; anything
\* else is rejected.
Decode(raw, lines) ==
  IF \E i \in 1..Len(lines) : raw = [k \in 1..LineBytes |-> Content(i, k)]
  THEN lines[CHOOSE i \in 1..Len(lines) :
               raw = [k \in 1..LineBytes |-> Content(i, k)]]
  ELSE NotJsonRecord

\* What the handler decodes of the file with the given ?tail= budget.
ActivityLines(lines, tail_size) ==
  LET raws == TailLines(Encode(lines), tail_size) IN
    [i \in 1..Len(raws) |-> Decode(raws[i], lines)]

\* {'events': events, 'fileSize': fsize}
ActivityResult(lines, tail_size) ==
  [op |-> "activity", status |-> 200,
   events |-> ActivityScan(ActivityLines(lines, tail_size)),
   fileSize |-> Len(Encode(lines))]

(***************************************************************************)
(* api_subagents                                                           *)
(***************************************************************************)
FIVE_MINUTES_MS == 5 * 60 * 1000
THIRTY_MINUTES_MS == 30 * 60 * 1000
\* len(recent_tools) < 5
RECENT_TOOLS == 5
\* tail_start = max(0, fsize - 8192)
SUBAGENT_TAIL_BYTES == 8192

\* A text block whose stripped text has one to five characters.
ShortTextBlock == Block("text", "", "short")

\* sessions.json as json.load finds it: "missing", "not_json", "non_object"
\* (valid JSON, no object) or "object" with its entries in order.  An entry:
\* whether its key contains ':subagent:', its sessionId ("" when absent),
\* its updatedAt in milliseconds (0 when absent), and its transcript.
IndexFile(kind, entries) == [kind |-> kind, entries |-> entries]
NoTranscript == [exists |-> FALSE, lines |-> <<>>]
TranscriptOf(lines) == [exists |-> TRUE, lines |-> lines]
Entry(sub, sid, updatedAt, file) ==
  [sub |-> sub, sid |-> sid, updatedAt |-> updatedAt, file |-> file]

\* An age compared with `<=` would put the boundary on the other side.
IsWithinInclusive(age_ms, window) == age_ms <= window
\* age_ms < 5 * 60 * 1000, age_ms < 30 * 60 * 1000
IsWithin(age_ms, window) == age_ms < window

\* Lines 4606-4612; without updatedAt the age is float('inf').
StatusOf(now_ms, updated_at) ==
  IF updated_at = 0 THEN "stale"
  ELSE IF IsWithin(now_ms - updated_at, FIVE_MINUTES_MS) THEN "active"
  ELSE IF IsWithin(now_ms - updated_at, THIRTY_MINUTES_MS) THEN "idle"
  ELSE "stale"
\* runtime_ms
RuntimeMs(now_ms, updated_at) ==
  IF updated_at = 0 THEN 0 ELSE now_ms - updated_at

\* A block a task summary points at: its line's timestamp and its index.
BlockRef(ts, i) == [ts |-> ts, block |-> i]
\* last_text = None
NoText == BlockRef(0, 0)
NoTask == [recentTools |-> <<>>, lastText |-> NoText]

\* for block in content (lines 4579-4589), from the i-th block on.
RECURSIVE ScanTaskBlocks(_, _, _)
ScanTaskBlocks(st, rec, i) ==
  IF i > Len(rec.blocks) THEN st
  ELSE LET b == rec.blocks[i] IN
       ScanTaskBlocks(
         CASE b.btype \in {"tool_use", "toolCall"}
                /\ Len(st.recent_tools) < RECENT_TOOLS ->
                [st EXCEPT !.recent_tools = Append(@, BlockRef(rec.ts, i))]
           [] ~(b.btype \in {"tool_use", "toolCall"}
                /\ Len(st.recent_tools) < RECENT_TOOLS)
              /\ b.btype = "text" /\ rec.role = "assistant"
              /\ st.last_text = NoText /\ b.text = "some" ->
                [st EXCEPT !.last_text = BlockRef(rec.ts, i)]
           [] OTHER -> st,
         rec, i + 1)

\* for raw in reversed(tail_lines[-20:]), from the k-th line down.
RECURSIVE ScanTaskLines(_, _, _)
ScanTaskLines(st, lines, k) ==
  IF k < 1 THEN st
  ELSE LET rec == lines[k] IN
       ScanTaskLines(
         IF rec.json = "object" /\ rec.type = "message" /\ rec.form = "list"
         THEN ScanTaskBlocks(st, rec, 1) ELSE st,
         lines, k - 1)

Reverse(s) == [i \in 1..Len(s) |-> s[Len(s) + 1 - i]]

\* tail_lines[-20:] once decoded.
ScannedTail(lines) ==
  LET raws == TailLines(Encode(lines), SUBAGENT_TAIL_BYTES) IN
    LastN([i \in 1..Len(raws) |-> Decode(raws[i], lines)], TAIL_LINES_SCANNED)

\* tasks[key]
TaskOf(lines) ==
  LET scanned == ScannedTail(lines)
      st == ScanTaskLines([recent_tools |-> <<>>, last_text |-> NoText],
                          scanned, Len(scanned)) IN
    [recentTools |-> Reverse(st.recent_tools), lastText |-> st.last_text]

\* One element of 'subagents' (the display name, the runtime text and the
\* fields copied from the index entry are left out).
SubagentOf(now_ms, entry, n) ==
  LET task == IF entry.sid # "" /\ entry.file.exists
              THEN TaskOf(entry.file.lines) ELSE NoTask IN
    [key |-> n, sessionId |-> entry.sid,
     status |-> StatusOf(now_ms, entry.updatedAt),
     runtimeMs |-> RuntimeMs(now_ms, entry.updatedAt),
     updatedAt |-> entry.updatedAt,
     recentTools |-> task.recentTools, lastText |-> task.lastText]

\* subagents.sort(key=updatedAt, reverse=True): a stable sort.
RECURSIVE InsertByUpdatedAt(_, _)
InsertByUpdatedAt(sorted, s) ==
  IF sorted = <<>> THEN <<s>>
  ELSE IF Head(sorted).updatedAt >= s.updatedAt
       THEN <<Head(sorted)>> \o InsertByUpdatedAt(Tail(sorted), s)
       ELSE <<s>> \o sorted
RECURSIVE SortByUpdatedAt(_)
SortByUpdatedAt(subagents) ==
  IF subagents = <<>> THEN <<>>
  ELSE InsertByUpdatedAt(
         SortByUpdatedAt(SubSeq(subagents, 1, Len(subagents) - 1)),
         subagents[Len(subagents)])

\* A count that takes every element, whatever its status.
CountStatusAll(subagents, status) == Len(subagents)
\* sum(1 for s in subagents if s['status'] == status)
CountStatus(subagents, status) ==
  Len(SelectSeq(subagents, LAMBDA s : s.status = status))

SubagentsResponse(subagents) ==
  [op |-> "subagents", status |-> 200, subagents |-> subagents,
   counts |-> [active |-> CountStatus(subagents, "active"),
               idle |-> CountStatus(subagents, "idle"),
               stale |-> CountStatus(subagents, "stale"),
               total |-> Len(subagents)],
   totalActive |-> CountStatus(subagents, "active")]

\* An exception no try encloses: Flask answers HTTP 500.
UncaughtResponse ==
  [op |-> "subagents", status |-> 500, subagents |-> <<>>,
   counts |-> [active |-> 0, idle |-> 0, stale |-> 0, total |-> 0],
   totalActive |-> 0]
\* A handler that let the exception of the index read out.
IndexErrorRaised == UncaughtResponse
\* except Exception: return jsonify({'subagents': [], 'counts': {...}})
IndexErrorResponse == SubagentsResponse(<<>>)

\* The whole handler.  index.items() on JSON that is no object raises
\* outside every try.
SubagentsResult(now_ms, index) ==
  CASE index.kind \in {"missing", "not_json"} -> IndexErrorResponse
    [] index.kind = "non_object" -> UncaughtResponse
    [] OTHER ->
       LET sa_entries == SelectSeq([i \in 1..Len(index.entries) |->
                                      [n |-> i, entry |-> index.entries[i]]],
                                   LAMBDA e : e.entry.sub) IN
         SubagentsResponse(SortByUpdatedAt(
           [i \in 1..Len(sa_entries) |->
              SubagentOf(now_ms, sa_entries[i].entry, sa_entries[i].n)]))

(***************************************************************************)
(* _analyze_usage_trends and _generate_cost_warnings                       *)
(***************************************************************************)
\* sorted(daily_tokens.items())[-7:]
TREND_WINDOW == 7
\* tokens_series[-3:]
RECENT_DAYS == 3

\* The code compares two doubles, recent_avg = s / 3 and older_avg * f with
\* older_avg = o / k and f the double nearest to 1.2 or 0.8.  With integer
\* sums the two sides differ by far more than a rounding error unless they
\* are equal as numbers; when they are equal and not 0, the roundings of
\* the two quotients and of the product decide, and both results occur.
\* tenths is 12 or 8; the result is the set of values `recent_avg >
\* older_avg * f` (above) or `recent_avg < older_avg * f` can have.
Compared(s, o, k, tenths, above) ==
  LET left == s * k * 10
      right == o * RECENT_DAYS * tenths IN
    IF left = right
    THEN (IF s = 0 THEN {FALSE} ELSE BOOLEAN)
    ELSE {IF above THEN left > right ELSE left < right}

\* The trends _analyze_usage_trends can return for the day buckets whose
\* token sums are series, in the order of their dates.  With exactly three
\* buckets older_avg is recent_avg itself.
Trends(series) ==
  IF Len(series) < RECENT_DAYS THEN {"insufficient_data"}
  ELSE LET tokens_series == LastN(series, TREND_WINDOW)
           s == SumSeq(LastN(tokens_series, RECENT_DAYS))
           k == Len(tokens_series) - RECENT_DAYS
           o == SumSeq(SubSeq(tokens_series, 1, k)) IN
         IF k = 0 THEN {"stable"}
         ELSE {IF inc THEN "increasing"
               ELSE IF dec THEN "decreasing" ELSE "stable" :
                 inc \in Compared(s, o, k, 12, TRUE),
                 dec \in Compared(s, o, k, 8, FALSE)}

\* 'dailyAvg': int(sum(tokens_series[-7:]) / len(tokens_series[-7:]))
DailyAvg(series) ==
  LET tokens_series == LastN(series, TREND_WINDOW) IN
    SumSeq(tokens_series) \div Len(tokens_series)

\* The returned dict ('monthlyPrediction' and 'prediction' left out).
TrendResult(series, trend) ==
  [op |-> "trends", trend |-> trend,
   dailyAvg |-> IF Len(series) < RECENT_DAYS THEN 0 ELSE DailyAvg(series)]

\* The thresholds of _generate_cost_warnings, in cents.
HIGH_DAILY_COST == 1000
ELEVATED_DAILY_COST == 500
HIGH_WEEKLY_COST == 5000
ELEVATED_WEEKLY_COST == 2500
HIGH_MONTHLY_COST == 20000
ELEVATED_MONTHLY_COST == 10000
\* trend_data.get('monthlyPrediction', 0) > 300
PREDICTION_CEILING == 300

Warning(type, level) == [type |-> type, level |-> level]

\* Two independent tests in place of if / elif.
PeriodWarningsBoth(cost, high, elevated, period) ==
  (IF cost > high THEN <<Warning("high_" \o period, "error")>> ELSE <<>>)
  \o (IF cost > elevated
      THEN <<Warning("elevated_" \o period, "warning")>> ELSE <<>>)
\* if cost > high: ... elif cost > elevated: ...
PeriodWarnings(cost, high, elevated, period) ==
  IF cost > high THEN <<Warning("high_" \o period, "error")>>
  ELSE IF cost > elevated THEN <<Warning("elevated_" \o period, "warning")>>
  ELSE <<>>

\* trend_data: its 'trend' and its 'monthlyPrediction' (0 when absent).
TrendData(trend, monthlyPrediction) ==
  [trend |-> trend, monthlyPrediction |-> monthlyPrediction]

\* _generate_cost_warnings (the messages left out).
CostWarnings(today_cost, week_cost, month_cost, trend_data) ==
  PeriodWarnings(today_cost, HIGH_DAILY_COST, ELEVATED_DAILY_COST,
                 "daily_cost")
  \o PeriodWarnings(week_cost, HIGH_WEEKLY_COST, ELEVATED_WEEKLY_COST,
                    "weekly_cost")
  \o PeriodWarnings(month_cost, HIGH_MONTHLY_COST, ELEVATED_MONTHLY_COST,
                    "monthly_cost")
  \o (IF trend_data.trend = "increasing"
         /\ trend_data.monthlyPrediction > PREDICTION_CEILING
      THEN <<Warning("trend_warning", "warning")>> ELSE <<>>)

(***************************************************************************)
(* The overview's task cards (the page's script): loadActiveTasks and      *)
(* _ovRenderCard, run on one element of /api/subagents.                    *)
(***************************************************************************)
\* What the page gets of a sub-agent: its status, abortedLastRun as a
\* boolean and outputTokens as a number or null (form "null").
Agent(status, abortedLastRun, outputTokens) ==
  [status |-> status, abortedLastRun |-> abortedLastRun,
   outputTokens |-> outputTokens]
NullTokens == [form |-> "null", n |-> 0]
\* (agent.outputTokens || 0)
OrZero(tokens) == IF tokens.form = "number" THEN tokens.n ELSE 0

\* A test that leaves the output tokens out.
IsRealFailureAborted(agent) ==
  agent.status = "stale" /\ agent.abortedLastRun
\* agent.status === 'stale' && agent.abortedLastRun
\*   && (agent.outputTokens || 0) === 0
IsRealFailure(agent) ==
  /\ agent.status = "stale"
  /\ agent.abortedLastRun
  /\ OrZero(agent.outputTokens) = 0

\* sc in _ovRenderCard; the list loadActiveTasks puts the agent in.
CardOf(agent) ==
  [op |-> "card",
   sc |-> IF agent.status = "active" THEN "running"
          ELSE IF IsRealFailure(agent) THEN "failed" ELSE "complete",
   group |-> IF agent.status = "active" THEN "running"
             ELSE IF IsRealFailure(agent) THEN "failed" ELSE "done"]

(***************************************************************************)
(* api_logs_stream: the generator the server iterates to send the          *)
(* response.  For the thread serving it:                                   *)
(*   pos     "none", "no_file" (at the yield of the one message when no    *)
(*           log file was found), "readline" (in proc.stdout.readline()),  *)
(*           "yield" (at the yield of a line, the server writing it to     *)
(*           the socket), "closed" (the generator has ended)               *)
(*   proc    the tail subprocess: "none", "running", "killed"              *)
(*   client  "none", "connected", "gone"                                   *)
(*   pipe    lines tail has written that readline has not returned yet     *)
(***************************************************************************)
Stream(pos, proc, client, pipe) ==
  [pos |-> pos, proc |-> proc, client |-> client, pipe |-> pipe]
NoStream == Stream("none", "none", "none", 0)

\* No read-only handler has run.
NoCall == [op |-> "none"]

InitWith(files, dirs) ==
  /\ now = StartTime
  /\ ticks = 0
  /\ metrics_store = EmptyStore
  /\ otel_last_received = 0
  /\ metrics_lock = NoThread
  /\ disk \in {[p \in Paths |-> IF p = MetricsPath THEN f ELSE MissingFile] :
                 f \in files}
  /\ started = FALSE
  /\ pc = [t \in Threads |-> "not_started"]
  /\ flush = FlushIdle(0)
  /\ req = [t \in Requests |-> NoRequest]
  /\ nextId = 1
  /\ restarts = 0
  /\ history = EmptyStore
  /\ lastCycle = "none"
  /\ transcripts \in dirs
  /\ writes = 0
  /\ usage_cache = [data |-> NoResult, ts |-> 0]
  /\ resp = [t \in Requests |-> NoResult]
  /\ acc = [t \in Requests |-> EmptyAccumulators]
  /\ lastScan = NoAggregation
  /\ lastFold = NoAggregation
  /\ call = NoCall
  /\ ret = NoCall
  /\ streams = [t \in Requests |-> NoStream]

\* main(): _load_metrics_from_disk(), _start_metrics_flush_thread(), app.run.
\* Nothing else runs before; the flush thread starts in time.sleep(60).
Startup ==
  /\ ~started
  /\ started' = TRUE
  /\ metrics_store' = LoadedStore(disk[MetricsPath], metrics_store, now)
  /\ otel_last_received' =
       LoadedLastReceived(disk[MetricsPath], otel_last_received)
  /\ history' = metrics_store'
  /\ pc' = [t \in Threads |-> IF t = FlushThread THEN "sleep" ELSE "idle"]
  /\ flush' = FlushIdle(now + FLUSH_INTERVAL)
  /\ UNCHANGED <<now, ticks, metrics_lock, disk, req, nextId, restarts,
                 lastCycle>>
  /\ UNCHANGED usageVars
  /\ UNCHANGED viewVars

\* The clock.
Tick(deltas, maxTicks) ==
  /\ ticks < maxTicks
  /\ \E d \in deltas : now' = now + d
  /\ ticks' = ticks + 1
  /\ UNCHANGED <<metrics_store, otel_last_received, metrics_lock, disk,
                 started, pc, flush, req, nextId, restarts, history, lastCycle>>
  /\ UNCHANGED usageVars
  /\ UNCHANGED viewVars

\* The process is stopped between two flush cycles, with no request in
\* progress, and started again: memory is lost, the files stay.
Restart ==
  /\ started
  /\ restarts < MaxRestarts
  /\ \A t \in Requests : pc[t] = "idle"
  /\ pc[FlushThread] = "sleep"
  /\ restarts' = restarts + 1
  /\ started' = FALSE
  /\ metrics_store' = EmptyStore
  /\ otel_last_received' = 0
  /\ metrics_lock' = NoThread
  /\ pc' = [t \in Threads |-> "not_started"]
  /\ flush' = FlushIdle(0)
  /\ req' = [t \in Requests |-> NoRequest]
  /\ history' = EmptyStore
  /\ lastCycle' = "none"
  /\ usage_cache' = [data |-> NoResult, ts |-> 0]
  /\ resp' = [t \in Requests |-> NoResult]
  /\ acc' = [t \in Requests |-> EmptyAccumulators]
  /\ lastScan' = NoAggregation
  /\ lastFold' = NoAggregation
  /\ UNCHANGED <<now, ticks, disk, nextId, transcripts, writes>>
  /\ UNCHANGED viewVars

(***************************************************************************)
(* _metrics_lock                                                           *)
(***************************************************************************)
LockFree == metrics_lock = NoThread
\* A block that keeps the lock when it is left.
ReleasedNever(t) == metrics_lock
\* Leaving a with-block releases the lock the thread holds.
Released(t) == IF metrics_lock = t THEN NoThread ELSE metrics_lock

Goto(t, label) == pc' = [pc EXCEPT ![t] = label]

(***************************************************************************)
(* _add_metric, called by the OTLP receivers on a request thread           *)
(***************************************************************************)
\* if len(lst) > MAX_STORE_ENTRIES: lst = lst[-MAX_STORE_ENTRIES:]
TruncatedFirst(lst) ==
  IF Len(lst) > MAX_STORE_ENTRIES THEN FirstN(lst, MAX_STORE_ENTRIES) ELSE lst
Truncated(lst) ==
  IF Len(lst) > MAX_STORE_ENTRIES THEN LastN(lst, MAX_STORE_ENTRIES) ELSE lst

\* A list that takes the new entry at its head.
AppendedFirst(lst, entry) == <<entry>> \o lst
\* metrics_store[category].append(entry)
Appended(lst, entry) == Append(lst, entry)

\* The receiver builds the entry with ts = time.time() and calls _add_metric.
AddCall(t, maxAppends) ==
  /\ pc[t] = "idle"
  /\ nextId <= maxAppends
  /\ \E c \in PushedCategories :
       req' = [req EXCEPT ![t] = [NoRequest EXCEPT !.category = c,
                                                   !.entry = Sample(nextId, now)]]
  /\ nextId' = nextId + 1
  /\ Goto(t, "add_lock")
  /\ UNCHANGED <<now, ticks, metrics_store, otel_last_received, metrics_lock,
                 disk, started, flush, restarts, history, lastCycle>>
  /\ UNCHANGED usageVars
  /\ UNCHANGED viewVars

\* with _metrics_lock:
AddLock(t) ==
  /\ pc[t] = "add_lock"
  /\ LockFree
  /\ metrics_lock' = t
  /\ Goto(t, "add_append")
  /\ UNCHANGED <<now, ticks, metrics_store, otel_last_received, disk, started,
                 flush, req, nextId, restarts, history, lastCycle>>
  /\ UNCHANGED usageVars
  /\ UNCHANGED viewVars

\* metrics_store[category].append(entry)
AddAppend(t) ==
  /\ pc[t] = "add_append"
  /\ metrics_store' = [metrics_store EXCEPT
                         ![req[t].category] = Appended(@, req[t].entry)]
  /\ history' = [history EXCEPT ![req[t].category] = Append(@, req[t].entry)]
  /\ Goto(t, "add_truncate")
  /\ UNCHANGED <<now, ticks, otel_last_received, metrics_lock, disk, started,
                 flush, req, nextId, restarts, lastCycle>>
  /\ UNCHANGED usageVars
  /\ UNCHANGED viewVars

AddTruncate(t) ==
  /\ pc[t] = "add_truncate"
  /\ metrics_store' = [metrics_store EXCEPT ![req[t].category] = Truncated(@)]
  /\ Goto(t, "add_received")
  /\ UNCHANGED <<now, ticks, otel_last_received, metrics_lock, disk, started,
                 flush, req, nextId, restarts, history, lastCycle>>
  /\ UNCHANGED usageVars
  /\ UNCHANGED viewVars

\* _otel_last_received = time.time()
AddReceived(t) ==
  /\ pc[t] = "add_received"
  /\ otel_last_received' = now
  /\ Goto(t, "add_unlock")
  /\ UNCHANGED <<now, ticks, metrics_store, metrics_lock, disk, started,
                 flush, req, nextId, restarts, history, lastCycle>>
  /\ UNCHANGED usageVars
  /\ UNCHANGED viewVars

AddUnlock(t) ==
  /\ pc[t] = "add_unlock"
  /\ metrics_lock' = Released(t)
  /\ req' = [req EXCEPT ![t] = NoRequest]
  /\ Goto(t, "idle")
  /\ UNCHANGED <<now, ticks, metrics_store, otel_last_received, disk, started,
                 flush, nextId, restarts, history, lastCycle>>
  /\ UNCHANGED usageVars
  /\ UNCHANGED viewVars

(***************************************************************************)
(* _metrics_flush_loop: sleep, _expire_old_entries, _save_metrics_to_disk  *)
(***************************************************************************)
\* Where the flush thread goes when a step of its cycle raises: both
\* _save_metrics_to_disk and the loop catch Exception and pass.
AfterErrorDead == "dead"
AfterError == "sleep"

\* The cycle is over (it ended as `how`): back to time.sleep(60).
EndCycle(how, after) ==
  /\ Goto(FlushThread, after)
  /\ flush' = FlushIdle(now + FLUSH_INTERVAL)
  /\ lastCycle' = how

\* time.sleep(60) returns.
FlushWake ==
  /\ pc[FlushThread] = "sleep"
  /\ now >= flush.wake
  /\ Goto(FlushThread, "exp_cutoff")
  /\ UNCHANGED <<now, ticks, metrics_store, otel_last_received, metrics_lock,
                 disk, started, flush, req, nextId, restarts, history,
                 lastCycle>>
  /\ UNCHANGED usageVars
  /\ UNCHANGED viewVars

\* cutoff = time.time() - (STORE_RETENTION_DAYS * 86400)
ExpCutoff ==
  /\ pc[FlushThread] = "exp_cutoff"
  /\ flush' = [flush EXCEPT !.cutoff = now - RetentionSeconds]
  /\ Goto(FlushThread, "exp_lock")
  /\ UNCHANGED <<now, ticks, metrics_store, otel_last_received, metrics_lock,
                 disk, started, req, nextId, restarts, history, lastCycle>>
  /\ UNCHANGED usageVars
  /\ UNCHANGED viewVars

\* A sweep that does not take the lock.
ExpLockSkipped ==
  /\ pc[FlushThread] = "exp_lock"
  /\ flush' = [flush EXCEPT !.k = 1, !.before = metrics_store]
  /\ Goto(FlushThread, "exp_read")
  /\ UNCHANGED <<now, ticks, metrics_store, otel_last_received, metrics_lock,
                 disk, started, req, nextId, restarts, history, lastCycle>>
  /\ UNCHANGED usageVars
  /\ UNCHANGED viewVars

\* with _metrics_lock:
ExpLock ==
  /\ pc[FlushThread] = "exp_lock"
  /\ LockFree
  /\ metrics_lock' = FlushThread
  /\ flush' = [flush EXCEPT !.k = 1, !.before = metrics_store]
  /\ Goto(FlushThread, "exp_read")
  /\ UNCHANGED <<now, ticks, metrics_store, otel_last_received, disk, started,
                 req, nextId, restarts, history, lastCycle>>
  /\ UNCHANGED usageVars
  /\ UNCHANGED viewVars

\* The comprehension over metrics_store[key]: it builds the new list, or
\* raises, which leaves the with-block (the lock is released) and the cycle.
ExpRead ==
  /\ pc[FlushThread] = "exp_read"
  /\ LET lst == metrics_store[Keys[flush.k]] IN
       \/ /\ Raises(lst)
          /\ metrics_lock' = Released(FlushThread)
          /\ EndCycle("sweep_raised", AfterError)
       \/ /\ ~Raises(lst)
          /\ flush' = [flush EXCEPT !.filtered = KeptEntries(lst, flush.cutoff)]
          /\ Goto(FlushThread, "exp_write")
          /\ UNCHANGED <<metrics_lock, lastCycle>>
  /\ UNCHANGED <<now, ticks, metrics_store, otel_last_received, disk, started,
                 req, nextId, restarts, history>>
  /\ UNCHANGED usageVars
  /\ UNCHANGED viewVars

\* metrics_store[key] = <the new list>; next key.
ExpWrite ==
  /\ pc[FlushThread] = "exp_write"
  /\ metrics_store' = [metrics_store EXCEPT ![Keys[flush.k]] = flush.filtered]
  /\ IF flush.k < Len(Keys)
       THEN /\ flush' = [flush EXCEPT !.k = flush.k + 1, !.filtered = <<>>]
            /\ Goto(FlushThread, "exp_read")
       ELSE /\ flush' = [flush EXCEPT !.k = 0, !.filtered = <<>>]
            /\ Goto(FlushThread, "exp_unlock")
  /\ UNCHANGED <<now, ticks, otel_last_received, metrics_lock, disk, started,
                 req, nextId, restarts, history, lastCycle>>
  /\ UNCHANGED usageVars
  /\ UNCHANGED viewVars

\* _expire_old_entries returns; _save_metrics_to_disk is called.
ExpUnlock ==
  /\ pc[FlushThread] = "exp_unlock"
  /\ metrics_lock' = Released(FlushThread)
  /\ Goto(FlushThread, "save_mkdir")
  /\ UNCHANGED <<now, ticks, metrics_store, otel_last_received, disk, started,
                 flush, req, nextId, restarts, history, lastCycle>>
  /\ UNCHANGED usageVars
  /\ UNCHANGED viewVars

\* os.makedirs(d, exist_ok=True)
SaveMkdir ==
  /\ pc[FlushThread] = "save_mkdir"
  /\ \/ /\ Goto(FlushThread, "save_lock")
        /\ UNCHANGED <<flush, lastCycle>>
     \/ EndCycle("save_failed", AfterError)
  /\ UNCHANGED <<now, ticks, metrics_store, otel_last_received, metrics_lock,
                 disk, started, req, nextId, restarts, history>>
  /\ UNCHANGED usageVars
  /\ UNCHANGED viewVars

\* with _metrics_lock:
SaveLock ==
  /\ pc[FlushThread] = "save_lock"
  /\ LockFree
  /\ metrics_lock' = FlushThread
  /\ Goto(FlushThread, "save_copy")
  /\ UNCHANGED <<now, ticks, metrics_store, otel_last_received, disk, started,
                 flush, req, nextId, restarts, history, lastCycle>>
  /\ UNCHANGED usageVars
  /\ UNCHANGED viewVars

\* for k in metrics_store: data[k] = list(metrics_store[k])
SaveCopy ==
  /\ pc[FlushThread] = "save_copy"
  /\ flush' = [flush EXCEPT !.data.cats = metrics_store,
                            !.seen = otel_last_received]
  /\ Goto(FlushThread, "save_unlock")
  /\ UNCHANGED <<now, ticks, metrics_store, otel_last_received, metrics_lock,
                 disk, started, req, nextId, restarts, history, lastCycle>>
  /\ UNCHANGED usageVars
  /\ UNCHANGED viewVars

SaveUnlock ==
  /\ pc[FlushThread] = "save_unlock"
  /\ metrics_lock' = Released(FlushThread)
  /\ Goto(FlushThread, "save_stamp")
  /\ UNCHANGED <<now, ticks, metrics_store, otel_last_received, disk, started,
                 flush, req, nextId, restarts, history, lastCycle>>
  /\ UNCHANGED usageVars
  /\ UNCHANGED viewVars

\* data['_last_received'] = _otel_last_received
SaveStamp ==
  /\ pc[FlushThread] = "save_stamp"
  /\ flush' = [flush EXCEPT !.data.last_received = otel_last_received]
  /\ Goto(FlushThread, "save_open")
  /\ UNCHANGED <<now, ticks, metrics_store, otel_last_received, metrics_lock,
                 disk, started, req, nextId, restarts, history, lastCycle>>
  /\ UNCHANGED usageVars
  /\ UNCHANGED viewVars

\* open(tmp, 'w') creates or truncates the temporary file.
SaveOpen ==
  /\ pc[FlushThread] = "save_open"
  /\ \/ /\ disk' = [disk EXCEPT ![TmpPath] = EmptyTextFile]
        /\ Goto(FlushThread, "save_dump")
        /\ UNCHANGED <<flush, lastCycle>>
     \/ /\ EndCycle("save_failed", AfterError)
        /\ UNCHANGED disk
  /\ UNCHANGED <<now, ticks, metrics_store, otel_last_received, metrics_lock,
                 started, req, nextId, restarts, history>>
  /\ UNCHANGED usageVars
  /\ UNCHANGED viewVars

\* json.dump(data, f) and the close of the file: all of it written, or an
\* error part-way that leaves a prefix.
SaveDump ==
  /\ pc[FlushThread] = "save_dump"
  /\ \/ /\ disk' = [disk EXCEPT ![TmpPath] = JsonDump(flush.data)]
        /\ Goto(FlushThread, "save_replace")
        /\ UNCHANGED <<flush, lastCycle>>
     \/ /\ disk' = [disk EXCEPT ![TmpPath] = JsonDumpPrefix(flush.data)]
        /\ EndCycle("save_failed", AfterError)
  /\ UNCHANGED <<now, ticks, metrics_store, otel_last_received, metrics_lock,
                 started, req, nextId, restarts, history>>
  /\ UNCHANGED usageVars
  /\ UNCHANGED viewVars

\* os.replace(tmp, path)
SaveReplace ==
  /\ pc[FlushThread] = "save_replace"
  /\ \/ /\ disk' = [p \in Paths |->
                      IF p = MetricsPath THEN disk[TmpPath]
                      ELSE IF p = TmpPath THEN MissingFile ELSE disk[p]]
        /\ EndCycle("saved", "sleep")
     \/ /\ EndCycle("save_failed", AfterError)
        /\ UNCHANGED disk
  /\ UNCHANGED <<now, ticks, metrics_store, otel_last_received, metrics_lock,
                 started, req, nextId, restarts, history>>
  /\ UNCHANGED usageVars
  /\ UNCHANGED viewVars

FlushStep ==
  \/ FlushWake \/ ExpCutoff \/ ExpLock \/ ExpRead \/ ExpWrite \/ ExpUnlock
  \/ SaveMkdir \/ SaveLock \/ SaveCopy \/ SaveUnlock \/ SaveStamp
  \/ SaveOpen \/ SaveDump \/ SaveReplace

AddStep(t, maxAppends) ==
  \/ AddCall(t, maxAppends) \/ AddLock(t) \/ AddAppend(t) \/ AddTruncate(t)
  \/ AddReceived(t) \/ AddUnlock(t)

(***************************************************************************)
(* api_usage, on a request thread                                          *)
(***************************************************************************)
UsagePositions ==
  {"usage_cache", "usage_has_otel", "usage_scan", "usage_reply",
   "otel_lock", "otel_fold", "otel_lock2", "otel_runs", "otel_reply"}

\* What thread t's aggregation leaves behind for the next comparison.
Aggregated(last, input, a) ==
  [valid |-> TRUE, input |-> input,
   again |-> last.valid /\ last.input = input,
   tokens |-> a.tokens, cost |-> a.cost,
   prevTokens |-> last.tokens, prevCost |-> last.cost,
   counted |-> a.counted]

\* now = _time.time()
UsageCall(t) ==
  /\ pc[t] = "idle"
  /\ req' = [req EXCEPT ![t] =
              [NoRequest EXCEPT !.start = now,
                                !.had_data = \E c \in Categories :
                                               metrics_store[c] # <<>>]]
  /\ resp' = [resp EXCEPT ![t] = NoResult]
  /\ Goto(t, "usage_cache")
  /\ UNCHANGED <<now, ticks, metrics_store, otel_last_received, metrics_lock,
                 disk, started, flush, nextId, restarts, history, lastCycle>>
  /\ UNCHANGED <<transcripts, writes, usage_cache, acc, lastScan, lastFold>>
  /\ UNCHANGED viewVars

\* if _usage_cache['data'] is not None and (now - ts) < TTL: return it
UsageCache(t) ==
  /\ pc[t] = "usage_cache"
  /\ IF CacheFresh(usage_cache, req[t].start)
     THEN /\ resp' = [resp EXCEPT ![t] = usage_cache.data]
          /\ req' = [req EXCEPT ![t] = NoRequest]
          /\ Goto(t, "idle")
     ELSE /\ Goto(t, "usage_has_otel")
          /\ UNCHANGED <<resp, req>>
  /\ UNCHANGED <<now, ticks, metrics_store, otel_last_received, metrics_lock,
                 disk, started, flush, nextId, restarts, history, lastCycle>>
  /\ UNCHANGED <<transcripts, writes, usage_cache, acc, lastScan, lastFold>>
  /\ UNCHANGED viewVars

\* if _has_otel_data(): -- the store is read without the lock.
UsageHasOtel(t) ==
  /\ pc[t] = "usage_has_otel"
  /\ IF HasOtelData(metrics_store) THEN Goto(t, "otel_lock")
     ELSE Goto(t, "usage_scan")
  /\ UNCHANGED <<now, ticks, metrics_store, otel_last_received, metrics_lock,
                 disk, started, flush, req, nextId, restarts, history,
                 lastCycle>>
  /\ UNCHANGED usageVars
  /\ UNCHANGED viewVars

\* Lines 4052-4130: fresh accumulators, then every transcript file.
UsageScan(t) ==
  /\ pc[t] = "usage_scan"
  /\ acc' = [acc EXCEPT ![t] = FoldFiles(NewAccumulators(@), transcripts, 1)]
  /\ lastScan' = Aggregated(lastScan, transcripts, acc'[t])
  /\ Goto(t, "usage_reply")
  /\ UNCHANGED <<now, ticks, metrics_store, otel_last_received, metrics_lock,
                 disk, started, flush, req, nextId, restarts, history,
                 lastCycle>>
  /\ UNCHANGED <<transcripts, writes, usage_cache, resp, lastFold>>
  /\ UNCHANGED viewVars

\* Lines 4169-4186: the result is cached with the time of its completion.
UsageReply(t) ==
  /\ pc[t] = "usage_reply"
  /\ LET result == Result("transcripts", acc[t], 0, 0) IN
       /\ usage_cache' = [data |-> result, ts |-> now]
       /\ resp' = [resp EXCEPT ![t] = result]
  /\ req' = [req EXCEPT ![t] = NoRequest]
  /\ Goto(t, "idle")
  /\ UNCHANGED <<now, ticks, metrics_store, otel_last_received, metrics_lock,
                 disk, started, flush, nextId, restarts, history, lastCycle>>
  /\ UNCHANGED <<transcripts, writes, acc, lastScan, lastFold>>
  /\ UNCHANGED viewVars

\* _get_otel_usage_data: with _metrics_lock (line 339)
OtelLock(t) ==
  /\ pc[t] = "otel_lock"
  /\ LockFree
  /\ metrics_lock' = t
  /\ Goto(t, "otel_fold")
  /\ UNCHANGED <<now, ticks, metrics_store, otel_last_received, disk, started,
                 flush, req, nextId, restarts, history, lastCycle>>
  /\ UNCHANGED usageVars
  /\ UNCHANGED viewVars

\* The handler raised: the with-block releases the lock, Flask answers 500
\* and the cache stays as it was.
UsageRaised(t) ==
  /\ metrics_lock' = Released(t)
  /\ resp' = [resp EXCEPT ![t] = ErrorResponse]
  /\ req' = [req EXCEPT ![t] = NoRequest]
  /\ Goto(t, "idle")
  /\ UNCHANGED <<acc, lastFold>>

\* Lines 335-351: fresh accumulators, the two loops, the lock released.
OtelFold(t) ==
  /\ pc[t] = "otel_fold"
  /\ IF Raises(metrics_store["tokens"]) \/ Raises(metrics_store["cost"])
     THEN UsageRaised(t)
     ELSE /\ acc' = [acc EXCEPT ![t] =
                       FoldCost(FoldTokens(NewAccumulators(@),
                                           metrics_store["tokens"], 1),
                                metrics_store["cost"], 1)]
          /\ lastFold' = Aggregated(lastFold,
                                    <<metrics_store["tokens"],
                                      metrics_store["cost"]>>, acc'[t])
          /\ metrics_lock' = Released(t)
          /\ Goto(t, "otel_lock2")
          /\ UNCHANGED <<resp, req>>
  /\ UNCHANGED <<now, ticks, metrics_store, otel_last_received, disk, started,
                 flush, nextId, restarts, history, lastCycle>>
  /\ UNCHANGED <<transcripts, writes, usage_cache, lastScan>>
  /\ UNCHANGED viewVars

\* with _metrics_lock (line 376)
OtelLock2(t) ==
  /\ pc[t] = "otel_lock2"
  /\ LockFree
  /\ metrics_lock' = t
  /\ Goto(t, "otel_runs")
  /\ UNCHANGED <<now, ticks, metrics_store, otel_last_received, disk, started,
                 flush, req, nextId, restarts, history, lastCycle>>
  /\ UNCHANGED usageVars
  /\ UNCHANGED viewVars

\* Lines 375-378: the run durations, the lock released.
OtelRuns(t) ==
  /\ pc[t] = "otel_runs"
  /\ IF RunsRaise(metrics_store["runs"])
     THEN UsageRaised(t)
     ELSE /\ acc' = [acc EXCEPT ![t].run_durations =
                       RunDurations(metrics_store["runs"])]
          /\ metrics_lock' = Released(t)
          /\ Goto(t, "otel_reply")
          /\ UNCHANGED <<resp, req, lastFold>>
  /\ UNCHANGED <<now, ticks, metrics_store, otel_last_received, disk, started,
                 flush, nextId, restarts, history, lastCycle>>
  /\ UNCHANGED <<transcripts, writes, usage_cache, lastScan>>
  /\ UNCHANGED viewVars

\* Lines 381-404 and 4046-4048: len(metrics_store['messages']) is read
\* without the lock; the result is cached with the time the request began.
OtelReply(t) ==
  /\ pc[t] = "otel_reply"
  /\ LET result == Result("otlp", [acc[t] EXCEPT !.run_durations = <<>>],
                          AvgRunMs(acc[t].run_durations),
                          Len(metrics_store["messages"])) IN
       /\ usage_cache' = [data |-> result, ts |-> req[t].start]
       /\ resp' = [resp EXCEPT ![t] = result]
  /\ req' = [req EXCEPT ![t] = NoRequest]
  /\ Goto(t, "idle")
  /\ UNCHANGED <<now, ticks, metrics_store, otel_last_received, metrics_lock,
                 disk, started, flush, nextId, restarts, history, lastCycle>>
  /\ UNCHANGED <<transcripts, writes, acc, lastScan, lastFold>>
  /\ UNCHANGED viewVars

UsageStep(t) ==
  \/ UsageCall(t)
  \/ UsageCache(t)
  \/ UsageHasOtel(t)
  \/ UsageScan(t)
  \/ UsageReply(t)
  \/ OtelLock(t)
  \/ OtelFold(t)
  \/ OtelLock2(t)
  \/ OtelRuns(t)
  \/ OtelReply(t)

\* The agent appends a usage message to its session's transcript.
AgentWrites(maxWrites) ==
  /\ writes < maxWrites
  /\ transcripts # <<>>
  /\ transcripts' = [transcripts EXCEPT ![1] = Append(@, UsageLine(now, 1, 1))]
  /\ writes' = writes + 1
  /\ UNCHANGED <<now, ticks, metrics_store, otel_last_received, metrics_lock,
                 disk, started, pc, flush, req, nextId, restarts, history,
                 lastCycle>>
  /\ UNCHANGED <<usage_cache, resp, acc, lastScan, lastFold>>
  /\ UNCHANGED viewVars

(***************************************************************************)
(* The read-only handlers and helpers.  Each is one step: it is given its  *)
(* input (call) and returns (ret); nothing of the server's state changes   *)
(* and the handlers keep nothing from one request to the next, so a        *)
(* behaviour holds one request.                                            *)
(***************************************************************************)
\* The file of n characters with newlines where shape says so; a content
\* character is named by its line and its place in the file.
FileOfShape(shape) ==
  [i \in 1..Len(shape) |->
     IF shape[i] = "nl" THEN NL
     ELSE Content(1 + Cardinality({h \in 1..(i - 1) : shape[h] = "nl"}), i)]

\* Lines 4672-4680 and 4532-4539 on any file and any byte budget.
TailRead(maxBytes) ==
  /\ call = NoCall
  /\ \E n \in 0..maxBytes :
       \E shape \in [1..n -> {"c", "nl"}] :
         \E tail_size \in 0..(n + 1) :
           LET data == FileOfShape(shape) IN
             /\ call' = [op |-> "tail", data |-> data, tail_size |-> tail_size]
             /\ ret' = [op |-> "tail", lines |-> TailLines(data, tail_size)]
  /\ UNCHANGED serverVars
  /\ UNCHANGED streams

\* The transcripts of up to maxLines lines, the i-th line stamped i.
Transcripts(maxLines) ==
  UNION {{[i \in 1..n |-> [kinds[i] EXCEPT !.ts = i]] :
            kinds \in [1..n -> RecordKinds]} : n \in 0..maxLines}

\* GET /api/transcript-events/<session_id> on an existing transcript.
TranscriptEvents(maxLines) ==
  /\ call = NoCall
  /\ \E lines \in Transcripts(maxLines) :
       /\ call' = [op |-> "transcript_events", lines |-> lines,
                   tail_size |-> 0]
       /\ ret' = TranscriptEventsResult(lines)
  /\ UNCHANGED serverVars
  /\ UNCHANGED streams

\* GET /api/subagent/<session_id>/activity?tail=N on an existing transcript.
SubagentActivity(maxLines) ==
  /\ call = NoCall
  /\ \E lines \in Transcripts(maxLines) :
       \E tail_size \in 0..(Len(Encode(lines)) + 1) :
         /\ call' = [op |-> "activity", lines |-> lines,
                     tail_size |-> tail_size]
         /\ ret' = ActivityResult(lines, tail_size)
  /\ UNCHANGED serverVars
  /\ UNCHANGED streams

\* The current time of a sub-agent list request, in milliseconds from an
\* origin more than thirty minutes back.
ViewNowMs == 2 * THIRTY_MINUTES_MS
\* updatedAt values around the two boundaries, one in the future, none.
UpdatedAts ==
  {0} \cup {ViewNowMs - age :
              age \in {0 - 1, 0, FIVE_MINUTES_MS - 1, FIVE_MINUTES_MS,
                       FIVE_MINUTES_MS + 1, THIRTY_MINUTES_MS - 1,
                       THIRTY_MINUTES_MS, THIRTY_MINUTES_MS + 1}}

\* The lines sub-agent transcripts are made of in the model.
TaskRecordKinds ==
  {NotJsonRecord,
   StringMessage("assistant"),
   Message("user", <<TextBlock>>),
   Message("assistant", <<ShortTextBlock>>),
   Message("assistant", <<TextBlock, ExecBlock, TextBlock>>),
   Message("assistant", <<ExecBlock, ReadBlock, OtherToolBlock>>),
   Message("assistant", <<ReadBlock, EmptyTextBlock, TextBlock>>)}

TaskTranscripts(maxLines) ==
  UNION {{[i \in 1..n |-> [kinds[i] EXCEPT !.ts = i]] :
            kinds \in [1..n -> TaskRecordKinds]} : n \in 0..maxLines}

\* Session indexes: unreadable ones, entries of every age with no
\* transcript, and one sub-agent with every transcript.
Indexes(maxEntries, maxLines) ==
  {IndexFile(kind, <<>>) : kind \in {"missing", "not_json", "non_object"}}
  \cup UNION {{IndexFile("object", [i \in 1..n |->
                  Entry(subs[i], "", ats[i], NoTranscript)]) :
                 subs \in [1..n -> BOOLEAN], ats \in [1..n -> UpdatedAts]} :
              n \in 0..maxEntries}
  \cup {IndexFile("object",
                  <<Entry(TRUE, sid, ViewNowMs, TranscriptOf(lines))>>) :
          sid \in {"", "s1"}, lines \in TaskTranscripts(maxLines)}
  \cup {IndexFile("object", <<Entry(TRUE, "s1", ViewNowMs, NoTranscript)>>)}

\* GET /api/subagents
Subagents(maxEntries, maxLines) ==
  /\ call = NoCall
  /\ \E index \in Indexes(maxEntries, maxLines) :
       /\ call' = [op |-> "subagents", now_ms |-> ViewNowMs, index |-> index]
       /\ ret' = SubagentsResult(ViewNowMs, index)
  /\ UNCHANGED serverVars
  /\ UNCHANGED streams

\* Token sums of a day in the model.
DayTokens == {0, 1, 3}
\* _analyze_usage_trends(daily_tokens)
AnalyzeUsageTrends(maxBuckets) ==
  /\ call = NoCall
  /\ \E n \in 0..maxBuckets :
       \E series \in [1..n -> DayTokens] :
         \E trend \in Trends(series) :
           /\ call' = [op |-> "trends", series |-> series]
           /\ ret' = TrendResult(series, trend)
  /\ UNCHANGED serverVars
  /\ UNCHANGED streams

\* Costs one cent above, at and below a threshold, 12.00 and 0.50.
CostsAround(high, elevated) ==
  {50, 1200, elevated, elevated + 1, high, high + 1}
TrendDatas ==
  {TrendData(trend, p) :
     trend \in {"increasing", "decreasing", "stable"},
     p \in {PREDICTION_CEILING, PREDICTION_CEILING + 1}}
  \cup {TrendData("insufficient_data", 0)}

\* _generate_cost_warnings(today_cost, week_cost, month_cost, trend_data)
GenerateCostWarnings ==
  /\ call = NoCall
  /\ \E today_cost \in CostsAround(HIGH_DAILY_COST, ELEVATED_DAILY_COST),
        week_cost \in CostsAround(HIGH_WEEKLY_COST, ELEVATED_WEEKLY_COST),
        month_cost \in CostsAround(HIGH_MONTHLY_COST, ELEVATED_MONTHLY_COST),
        trend_data \in TrendDatas :
       /\ call' = [op |-> "warnings", today_cost |-> today_cost,
                   week_cost |-> week_cost, month_cost |-> month_cost,
                   trend_data |-> trend_data]
       /\ ret' = [op |-> "warnings",
                  warnings |-> CostWarnings(today_cost, week_cost,
                                            month_cost, trend_data)]
  /\ UNCHANGED serverVars
  /\ UNCHANGED streams

\* The page renders the card of one sub-agent of the list.
OvRenderCard ==
  /\ call = NoCall
  /\ \E updated_at \in UpdatedAts, aborted \in BOOLEAN,
        tokens \in {Number(0), Number(5), NullTokens} :
       LET agent == Agent(StatusOf(ViewNowMs, updated_at), aborted, tokens) IN
         /\ call' = [op |-> "card", agent |-> agent]
         /\ ret' = CardOf(agent)
  /\ UNCHANGED serverVars
  /\ UNCHANGED streams

(***************************************************************************)
(* GET /api/logs-stream                                                    *)
(***************************************************************************)
StreamTo(t, st) ==
  /\ streams' = [streams EXCEPT ![t] = st]
  /\ UNCHANGED serverVars
  /\ UNCHANGED <<call, ret>>

\* The server calls the generator for the first time: with a log file it
\* starts tail -f -n 0 and enters readline, without one it yields its one
\* message.
StreamOpen(t) ==
  /\ streams[t].pos = "none"
  /\ \E log_file \in BOOLEAN :
       StreamTo(t, IF log_file
                   THEN Stream("readline", "running", "connected", 0)
                   ELSE Stream("no_file", "none", "connected", 0))

\* yield 'data: {"line":"No log file found"}'; return
StreamNoFile(t) ==
  /\ streams[t].pos = "no_file"
  /\ StreamTo(t, [streams[t] EXCEPT !.pos = "closed"])

\* Something appends a line to the log file: every running tail writes it to
\* its pipe, unless the pipe is full.
LogWrite ==
  /\ \E t \in Requests :
       streams[t].proc = "running" /\ streams[t].pipe < PipeLines
  /\ streams' = [t \in Requests |->
                   IF streams[t].proc = "running"
                      /\ streams[t].pipe < PipeLines
                   THEN [streams[t] EXCEPT !.pipe = @ + 1] ELSE streams[t]]
  /\ UNCHANGED serverVars
  /\ UNCHANGED <<call, ret>>

\* line = proc.stdout.readline() returns: it blocks until tail has written
\* a line.
StreamRead(t) ==
  /\ streams[t].pos = "readline"
  /\ streams[t].pipe > 0
  /\ StreamTo(t, [streams[t] EXCEPT !.pos = "yield", !.pipe = @ - 1])

\* yield f'data: ...': the server writes the chunk to the socket and asks
\* the generator for the next one.  (A write to a client that has just gone
\* may still be accepted.)
StreamYield(t) ==
  /\ streams[t].pos = "yield"
  /\ StreamTo(t, [streams[t] EXCEPT !.pos = "readline"])

\* The write to a client that is gone fails; the server closes the
\* generator, GeneratorExit is raised at the yield: proc.kill().
StreamBroken(t) ==
  /\ streams[t].pos = "yield"
  /\ streams[t].client = "gone"
  /\ StreamTo(t, [streams[t] EXCEPT !.pos = "closed", !.proc = "killed"])

\* The client closes the connection.
ClientDisconnect(t) ==
  /\ streams[t].pos \in {"no_file", "readline", "yield"}
  /\ streams[t].client = "connected"
  /\ StreamTo(t, [streams[t] EXCEPT !.client = "gone"])

(***************************************************************************)
(* Specifications.  The store under four sets of bounds, and the handlers  *)
(* that only read.                                                         *)
(***************************************************************************)
\* Spec: two request threads push samples while the flush thread runs one
\* cycle (sweep and save).
Init == InitWith({MissingFile}, {NoSessions})

Next ==
  \/ Startup
  \/ Tick({RetentionSeconds}, MaxTicks)
  \/ FlushStep
  \/ \E t \in Requests : AddStep(t, MaxAppends)

Spec == Init /\ [][Next]_vars

\* SpecFlush: one sample pushed, the flush thread runs up to two cycles.
InitFlush == InitWith({MissingFile, NonDictElementFile}, {NoSessions})

NextFlush ==
  \/ Startup
  \/ Tick({RetentionSeconds}, MaxTicks + 1)
  \/ FlushStep
  \/ AddStep("req1", 1)

SpecFlush == InitFlush /\ [][NextFlush]_vars

\* SpecRestart: the process starts on any of the snapshot files, pushes one
\* sample, saves, and is started again.
InitRestart == InitWith(InitialFiles, {NoSessions})

NextRestart ==
  \/ Startup
  \/ Tick({RetentionSeconds}, MaxTicks + 1)
  \/ Restart
  \/ FlushStep
  \/ AddStep("req1", 1)

SpecRestart == InitRestart /\ [][NextRestart]_vars

\* SpecUsage: one request thread asks for /api/usage again and again while
\* the other pushes a sample and the agent writes to a transcript; the clock
\* jumps to the middle or to the end of the cache's 60 seconds.  The flush
\* thread sleeps throughout (its cycles are in the specifications above).
InitUsage ==
  InitWith({MissingFile, NonDictElementFile, NonDictRunFile, MixedShapeFile,
            EarlierRunFile},
           {MixedSessions})

NextUsage ==
  \/ Startup
  \/ Tick({SmallDelta, _USAGE_CACHE_TTL}, MaxTicks)
  \/ AgentWrites(MaxWrites)
  \/ UsageStep("req1")
  \/ AddStep("req2", 1)

SpecUsage == InitUsage /\ [][NextUsage]_vars

\* SpecView: the read-only handlers and helpers, each on every input of its
\* bounded set, the server at rest.
NextView ==
  \/ TailRead(MaxBytes)
  \/ TranscriptEvents(MaxLines)
  \/ SubagentActivity(MaxLines)
  \/ Subagents(MaxEntries, MaxLines)
  \/ AnalyzeUsageTrends(MaxBuckets)
  \/ GenerateCostWarnings
  \/ OvRenderCard

SpecView == Init /\ [][NextView]_vars

\* SpecStream: both request threads serve a log stream.  The server's
\* threads keep running (a step of the generator or of the server's write
\* that can be taken is taken, and a write to a client that is gone fails
\* in the end); nothing says that the log file is ever written to or that a
\* client disconnects.
NextStream ==
  \/ \E t \in Requests : StreamOpen(t)
  \/ \E t \in Requests : StreamNoFile(t)
  \/ LogWrite
  \/ \E t \in Requests : StreamRead(t)
  \/ \E t \in Requests : StreamYield(t)
  \/ \E t \in Requests : StreamBroken(t)
  \/ \E t \in Requests : ClientDisconnect(t)

StreamFairness ==
  \A t \in Requests :
    /\ WF_vars(StreamNoFile(t))
    /\ WF_vars(StreamRead(t))
    /\ WF_vars(StreamYield(t) \/ StreamBroken(t))
    /\ SF_vars(StreamBroken(t))

SpecStream == Init /\ [][NextStream]_vars /\ StreamFairness

\* SpecLock: the three users of the metrics lock side by side: the flush
\* thread, a request thread that asks for /api/usage again and again and one
\* that pushes a sample, over one cycle of the flush thread.  A thread that
\* has begun goes on while it can (the interpreter switches threads every
\* few milliseconds), and a thread waiting for the lock gets it if the lock
\* is free again and again; nothing says that a request ever arrives or
\* that the clock moves.
NextLock ==
  \/ Startup
  \/ Tick({RetentionSeconds}, 1)
  \/ FlushStep
  \/ UsageStep("req1")
  \/ AddStep("req2", 1)

LockFairness ==
  /\ WF_vars(FlushStep)
  /\ WF_vars(UsageStep("req1") /\ pc["req1"] # "idle")
  /\ WF_vars(AddStep("req2", 1) /\ pc["req2"] # "idle")
  /\ SF_vars(ExpLock) /\ SF_vars(SaveLock)
  /\ SF_vars(OtelLock("req1")) /\ SF_vars(OtelLock2("req1"))
  /\ SF_vars(AddLock("req2"))

SpecLock == InitFlush /\ [][NextLock]_vars /\ LockFairness

\* SpecCycle: the behaviours of SpecFlush in which the threads keep
\* running: the flush thread and a request that has begun go on while they
\* can, and a thread waiting for the lock gets it if the lock is free again
\* and again.
CycleFairness ==
  /\ WF_vars(FlushStep)
  /\ WF_vars(AddStep("req1", 1) /\ pc["req1"] # "idle")
  /\ SF_vars(ExpLock) /\ SF_vars(SaveLock)
  /\ SF_vars(AddLock("req1"))

SpecCycle == InitFlush /\ [][NextFlush]_vars /\ CycleFairness

(***************************************************************************)
(* Helpers of the claims.                                                  *)
(***************************************************************************)
\* a is b with some elements left out, the order kept.
RECURSIVE IsSubseq(_, _)
IsSubseq(a, b) ==
  IF a = <<>> THEN TRUE
  ELSE IF b = <<>> THEN FALSE
  ELSE IF Head(a) = Head(b) THEN IsSubseq(Tail(a), Tail(b))
  ELSE IsSubseq(a, Tail(b))

Contains(lst, e) == \E i \in 1..Len(lst) : lst[i] = e

\* The flush thread of this run has not swept a category yet.
NoSweepYet ==
  /\ lastCycle = "none"
  /\ pc[FlushThread] \in {"not_started", "sleep", "exp_cutoff", "exp_lock"}

\* Positions inside a with _metrics_lock block.
AddCritical == {"add_append", "add_truncate", "add_received", "add_unlock"}
FlushCritical ==
  {"exp_read", "exp_write", "exp_unlock", "save_copy", "save_unlock"}
InCritical(t) ==
  IF t = FlushThread THEN pc[t] \in FlushCritical ELSE pc[t] \in AddCritical

SavePositions ==
  {"save_mkdir", "save_lock", "save_copy", "save_unlock", "save_stamp",
   "save_open", "save_dump", "save_replace"}

(***************************************************************************)
(* C1: whenever the metrics lock is free, no category holds more than      *)
(* MAX_STORE_ENTRIES elements, and as long as the run has only appended    *)
(* (no sweep yet) each category is exactly the last                        *)
(* min(n, MAX_STORE_ENTRIES) of the n elements put into it, in order: the  *)
(* oldest are evicted first and the newest is kept.                        *)
(***************************************************************************)
C1_CapKeepsNewest ==
  LockFree =>
    \A c \in Categories :
      /\ Len(metrics_store[c]) <= MAX_STORE_ENTRIES
      /\ NoSweepYet =>
           metrics_store[c] = LastN(history[c], MAX_STORE_ENTRIES)

\* One category has overflowed: MAX_STORE_ENTRIES + 1 samples appended, the
\* newest of them is the last of the list.
C1_Witness ==
  /\ LockFree
  /\ NoSweepYet
  /\ \E c \in Categories :
       /\ Len(history[c]) = MAX_STORE_ENTRIES + 1
       /\ Len(metrics_store[c]) = MAX_STORE_ENTRIES
       /\ metrics_store[c][MAX_STORE_ENTRIES] = history[c][MAX_STORE_ENTRIES + 1]
       /\ ~Contains(metrics_store[c], history[c][1])

(***************************************************************************)
(* C2: appends, the sweep and the snapshot copy each work on the category  *)
(* lists only while holding the one metrics lock (so at most one of them   *)
(* is inside at a time); no appended sample is lost or duplicated by a     *)
(* concurrent sweep (a sample still within the cap and the retention       *)
(* window is in its list once the lock is free, and every list is the      *)
(* appended elements in order with some left out); and the snapshot copy   *)
(* never holds a list caught between an append and its truncation.         *)
(***************************************************************************)
C2_MutualExclusion == \A t \in Threads : InCritical(t) => metrics_lock = t

C2_NoSampleLost ==
  LockFree =>
    \A c \in Categories :
      LET recent == LastN(history[c], MAX_STORE_ENTRIES) IN
        \A i \in 1..Len(recent) :
          (recent[i].shape = "sample"
             /\ recent[i].timestamp > now - RetentionSeconds)
            => Contains(metrics_store[c], recent[i])

C2_NoSampleDuplicated ==
  \A c \in Categories : IsSubseq(metrics_store[c], history[c])

C2_SnapshotCopyWhole ==
  \A c \in Categories :
    /\ Len(flush.data.cats[c]) <= MAX_STORE_ENTRIES
    /\ IsSubseq(flush.data.cats[c], history[c])

C2_Serialized ==
  /\ C2_MutualExclusion
  /\ C2_NoSampleLost
  /\ C2_NoSampleDuplicated
  /\ C2_SnapshotCopyWhole

\* A request thread waits for the lock while the sweep, holding it, is
\* between reading a list and writing it back.
C2_Witness ==
  /\ pc[FlushThread] = "exp_write"
  /\ metrics_lock = FlushThread
  /\ \E t \in Requests :
       /\ pc[t] = "add_lock"
       /\ req[t].category = Keys[flush.k]
       /\ req[t].entry.timestamp > flush.cutoff

(***************************************************************************)
(* C3: the snapshot path never shows a partially written file.  The file   *)
(* at the path changes only in the one os.replace step, and then it is the *)
(* complete dump of the data gathered for this save.                       *)
(***************************************************************************)
C3_AtomicReplace ==
  /\ [](disk[MetricsPath].kind # "partial")
  /\ [][disk'[MetricsPath] # disk[MetricsPath] =>
          /\ pc[FlushThread] = "save_replace"
          /\ disk'[MetricsPath] = JsonDump(flush.data)]_vars

\* A save is writing its temporary file while the path still shows the
\* complete snapshot of the save before.
C3_Witness ==
  /\ pc[FlushThread] = "save_dump"
  /\ disk[TmpPath].kind = "partial"
  /\ disk[MetricsPath].kind = "object"
  /\ disk[MetricsPath].cats # flush.data.cats

(***************************************************************************)
(* C4 as stated: loading a file that _save_metrics_to_disk wrote gives     *)
(* every category the saved list and _otel_last_received the saved value.  *)
(***************************************************************************)
WrittenBySave(file) == file.kind = "object" /\ file \notin InitialFiles
LoadStep == ~started /\ started'

C4_RoundTripExact ==
  [][(LoadStep /\ WrittenBySave(disk[MetricsPath])) =>
       /\ \A c \in Categories :
            metrics_store'[c] = disk[MetricsPath].cats[c]
       /\ otel_last_received' = disk[MetricsPath].last_received]_vars

(***************************************************************************)
(* C4, amended: the file written is the dump of the lists as copied under  *)
(* the lock, and loading it gives every category the saved samples that    *)
(* are newer than the load time minus the retention window, in the saved   *)
(* order (the load ends with a retention sweep), and _otel_last_received   *)
(* the saved value.                                                        *)
(***************************************************************************)
C4_RoundTripWithinRetention ==
  /\ [][(pc[FlushThread] = "save_copy" /\ pc'[FlushThread] = "save_unlock")
          => flush'.data.cats = metrics_store]_vars
  /\ [][(LoadStep /\ WrittenBySave(disk[MetricsPath])) =>
          /\ \A c \in Categories :
               metrics_store'[c] =
                 SelectSeq(disk[MetricsPath].cats[c],
                           LAMBDA e : e.timestamp > now - RetentionSeconds)
          /\ otel_last_received' = disk[MetricsPath].last_received]_vars

\* A restarted process has loaded a snapshot of its earlier run and holds
\* the saved sample and the saved _last_received.
C4_Witness ==
  /\ started
  /\ restarts = 1
  /\ NoSweepYet
  /\ WrittenBySave(disk[MetricsPath])
  /\ metrics_store = disk[MetricsPath].cats
  /\ \E c \in Categories : metrics_store[c] # <<>>
  /\ otel_last_received = disk[MetricsPath].last_received
  /\ otel_last_received > 0

(***************************************************************************)
(* C5 as stated: when the snapshot file is missing, is not valid JSON or   *)
(* has the wrong shape, the load leaves every category empty.              *)
(***************************************************************************)
WrongShape(file) ==
  \/ file.kind \in {"missing", "not_json", "partial", "non_object"}
  \/ /\ file.kind = "object"
     /\ \E c \in Categories :
          \/ file.form[c] = "non_list"
          \/ /\ file.form[c] = "list"
             /\ \E i \in 1..Len(file.cats[c]) : file.cats[c][i].shape # "sample"

C5_BadSnapshotStartsEmpty ==
  [][(LoadStep /\ WrongShape(disk[MetricsPath])) =>
       metrics_store' = EmptyStore]_vars

(***************************************************************************)
(* C6: a step of _save_metrics_to_disk that fails leaves the category      *)
(* lists and _otel_last_received as they were and sends the flush thread   *)
(* back to its sleep; the thread never ends; and the cycle after a failed  *)
(* save runs its sweep through and calls the save again.                   *)
(***************************************************************************)
FlushMoves == pc'[FlushThread] # pc[FlushThread]
SaveFails ==
  /\ pc[FlushThread] \in SavePositions
  /\ pc'[FlushThread] \notin SavePositions
  /\ lastCycle' # "saved"

C6_SaveFailureHarmless ==
  /\ [](pc[FlushThread] # "dead")
  /\ [][SaveFails =>
          /\ metrics_store' = metrics_store
          /\ otel_last_received' = otel_last_received
          /\ pc'[FlushThread] = "sleep"
          /\ flush'.wake = now + FLUSH_INTERVAL]_vars
  /\ [][(lastCycle = "save_failed" /\ FlushMoves) =>
          /\ pc[FlushThread] = "sleep" => pc'[FlushThread] = "exp_cutoff"
          /\ pc[FlushThread] = "exp_read" => pc'[FlushThread] = "exp_write"
          /\ pc[FlushThread] = "exp_unlock" => pc'[FlushThread] = "save_mkdir"
        ]_vars

\* After a failed save, with a sample in the store, the next cycle has swept
\* and is in the save again.
C6_Witness ==
  /\ lastCycle = "save_failed"
  /\ pc[FlushThread] = "save_open"
  /\ \E c \in Categories : metrics_store[c] # <<>>

(***************************************************************************)
(* The usage handler.                                                      *)
(***************************************************************************)
SomeCategoryNonEmpty == \E c \in Categories : metrics_store[c] # <<>>
OtelPositions ==
  {"otel_lock", "otel_fold", "otel_lock2", "otel_runs", "otel_reply"}
\* Thread t's usage request ends with this step.
Answers(t) == pc[t] \in UsagePositions /\ pc'[t] = "idle"

\* The per-day sums of a list of [day, n] pairs, each day summed on its own.
DaySums(pairs) ==
  [d \in {pairs[i].day : i \in 1..Len(pairs)} |->
     LET ofDay == SelectSeq(pairs, LAMBDA p : p.day = d) IN
       SumSeq([i \in 1..Len(ofDay) |-> ofDay[i].n])]

\* The per-day sums of the values of a list of samples.
SampleSums(lst) ==
  DaySums([i \in 1..Len(lst) |->
             [day |-> DayOf(lst[i].timestamp), n |-> lst[i].value]])

\* Every line of every file, in order.
RECURSIVE AllLines(_)
AllLines(files) ==
  IF files = <<>> THEN <<>> ELSE Head(files) \o AllLines(Tail(files))
\* The well-formed usage messages among them.
WellFormed(files) ==
  SelectSeq(AllLines(files), LAMBDA l : LineOutcome(l) = "count")
WellFormedTokens(files) ==
  LET ls == WellFormed(files) IN
    DaySums([i \in 1..Len(ls) |->
               [day |-> DayOf(ls[i].ts.at), n |-> LineTokens(ls[i])]])
WellFormedCost(files) ==
  LET ls == WellFormed(files) IN
    DaySums([i \in 1..Len(ls) |->
               [day |-> DayOf(ls[i].ts.at), n |-> LineCost(ls[i])]])

\* C7 (as stated): a usage request made while some category of the store is
\* non-empty is answered with the aggregation of the pushed metrics, source
\* 'otlp', whatever requests and appends came before.
C7_NonEmptyStoreAnswersOtlp ==
  [][\A t \in Requests :
       (Answers(t) /\ req[t].had_data) => resp'[t].source = "otlp"]_vars

\* C7 (amended): a usage request that finds no cached result younger than
\* the TTL and then finds some category non-empty goes to the pushed
\* metrics and never to the transcripts; what it returns, if it returns a
\* result, has source 'otlp', holds the per-day sums of the token and cost
\* samples and is the result it caches.  The transcripts are aggregated only
\* by a request that found every category empty.
C7_MissPrefersPushedMetrics ==
  [][\A t \in Requests :
       /\ (pc[t] = "usage_has_otel" /\ pc'[t] # pc[t]) =>
            IF SomeCategoryNonEmpty THEN pc'[t] = "otel_lock"
            ELSE pc'[t] = "usage_scan"
       /\ (pc[t] \in OtelPositions /\ pc'[t] # pc[t]) =>
            /\ pc'[t] \in OtelPositions \cup {"idle"}
            /\ usage_cache' # usage_cache =>
                 /\ usage_cache'.data = resp'[t]
                 /\ resp'[t].source = "otlp"
       /\ (pc[t] = "otel_fold" /\ pc'[t] = "otel_lock2") =>
            /\ acc'[t].tokens = SampleSums(metrics_store["tokens"])
            /\ acc'[t].cost = SampleSums(metrics_store["cost"])
       /\ (pc[t] \in OtelPositions /\ pc'[t] = "idle") =>
            /\ resp'[t].source \in {"otlp", "error"}
            /\ resp'[t].source = "otlp" =>
                 /\ resp'[t].tokens = acc[t].tokens
                 /\ resp'[t].cost = acc[t].cost]_vars

\* A request answered from the pushed metrics although an earlier request
\* had aggregated the transcripts, which are still there.
C7_Witness ==
  \E t \in Requests :
    /\ pc[t] = "idle"
    /\ resp[t].source = "otlp"
    /\ resp[t].tokens # EmptyDict
    /\ usage_cache.data = resp[t]
    /\ lastScan.valid
    /\ lastScan.tokens # EmptyDict

\* C8: a usage request made less than _USAGE_CACHE_TTL seconds after the
\* time recorded with the cached result returns the cached result and
\* computes nothing; a request made when nothing is cached, or at least TTL
\* seconds after the recorded time, recomputes, and ends with its result in
\* the cache.
C8_CacheTTL ==
  [][\A t \in Requests :
       /\ (pc[t] = "usage_cache" /\ pc'[t] # pc[t]) =>
            IF /\ usage_cache.data # NoResult
               /\ req[t].start - usage_cache.ts < _USAGE_CACHE_TTL
            THEN /\ pc'[t] = "idle"
                 /\ resp'[t] = usage_cache.data
                 /\ usage_cache' = usage_cache
            ELSE pc'[t] = "usage_has_otel"
       /\ (pc[t] \in UsagePositions \ {"usage_cache"} /\ pc'[t] = "idle") =>
            /\ resp'[t].source \in {"otlp", "transcripts"}
            /\ usage_cache'.data = resp'[t]
            /\ usage_cache'.ts >= req[t].start]_vars

\* C9: two fresh aggregations in a row over the same transcript files, or
\* over the same token and cost lists of the store, give the same per-day
\* token and cost sums.
C9_FreshRunsAgree ==
  /\ lastScan.again =>
       /\ lastScan.tokens = lastScan.prevTokens
       /\ lastScan.cost = lastScan.prevCost
  /\ lastFold.again =>
       /\ lastFold.tokens = lastFold.prevTokens
       /\ lastFold.cost = lastFold.prevCost

\* The transcripts were aggregated twice unchanged, with something to count.
C9_Witness ==
  /\ lastScan.again
  /\ lastScan.tokens # EmptyDict
  /\ lastScan.cost # EmptyDict

\* C10: a line that is no JSON, no object, or has a field of an unexpected
\* type is skipped alone: the buckets of a transcript aggregation hold
\* every well-formed usage message of every file.
C10_BadLineSkippedAlone ==
  lastScan.valid =>
    /\ lastScan.tokens = WellFormedTokens(lastScan.input)
    /\ lastScan.cost = WellFormedCost(lastScan.input)

\* A file in which some line ends the scan of the file.
FileRaises(file) == \E i \in 1..Len(file) : LineOutcome(file[i]) = "raise"
\* No usage message of day d stands in such a file.
DayUntouched(files, d) ==
  \A f \in 1..Len(files) :
    FileRaises(files[f]) =>
      \A i \in 1..Len(files[f]) :
        LineOutcome(files[f][i]) = "count"
          => DayOf(files[f][i].ts.at) # d
\* The cost a usage message stands for: its cost.total, or the estimate from
\* its token count when it has none.
CostOrEstimate(line) ==
  IF line.cost.form = "total" THEN line.cost.n
  ELSE calc_cost(LineTokens(line))
EstimatedCost(files) ==
  LET ls == WellFormed(files) IN
    DaySums([i \in 1..Len(ls) |->
               [day |-> DayOf(ls[i].ts.at), n |-> CostOrEstimate(ls[i])]])

\* C14: in a transcript aggregation a message with token counts and no
\* cost.total adds to the cost bucket of its day the estimate computed from
\* its tokens with the price table, not zero.  (Stated for the days none of
\* whose messages stand in a file whose scan is cut short.)
C14_MissingCostIsEstimated ==
  lastScan.valid =>
    \A d \in DOMAIN EstimatedCost(lastScan.input) :
      DayUntouched(lastScan.input, d) =>
        /\ d \in DOMAIN lastScan.cost
        /\ lastScan.cost[d] = EstimatedCost(lastScan.input)[d]

(***************************************************************************)
(* The tail reader.                                                        *)
(***************************************************************************)
\* a is the end of b.
IsSuffix(a, b) ==
  /\ Len(a) <= Len(b)
  /\ a = SubSeq(b, Len(b) - Len(a) + 1, Len(b))

\* The lines a read of the whole file gives.
FullRead(data) == TailLines(data, Len(data))

\* C13: with a byte budget smaller than the file, the lines the tail reader
\* returns are the last lines of the file, each whole, in file order, none
\* repeated, changed or left out.
C13_TailIsSuffix ==
  (call.op = "tail" /\ call.tail_size < Len(call.data)) =>
    IsSuffix(ret.lines, FullRead(call.data))

\* The window begins inside a line and two whole lines follow it.
C13_Witness ==
  /\ call.op = "tail"
  /\ call.tail_size < Len(call.data)
  /\ call.tail_size > 0
  /\ call.data[Len(call.data) - call.tail_size].kind = "c"
  /\ call.data[Len(call.data) - call.tail_size + 1].kind = "c"
  /\ Len(ret.lines) = 2
  /\ \A i \in 1..2 : ret.lines[i] # <<>>

(***************************************************************************)
(* The timeline handlers.                                                  *)
(***************************************************************************)
IsTimeline == call.op \in {"transcript_events", "activity"}
WithoutNonJson(lines) == SelectSeq(lines, LAMBDA r : r.json = "object")
\* The events of each line in turn, as the handler of the call makes them.
EventsOfEach(lines) ==
  Concat([i \in 1..Len(lines) |->
            IF call.op = "activity" THEN ActivityRecordEvents(lines[i])
            ELSE TranscriptRecordEvents(lines[i])])

\* C11: lines that are no JSON are skipped alone.  The transcript handler
\* answers as it would for the file without them, and its events are those
\* of every well-formed line, in order (the last EVENTS_RETURNED of them);
\* the activity handler's events are those of every well-formed line of the
\* tail it reads, in order, as if the others were absent from it.  Neither
\* fails.
C11_NonJsonLinesSkipped ==
  /\ call.op = "transcript_events" =>
       /\ ret.status = 200
       /\ ret = TranscriptEventsResult(WithoutNonJson(call.lines))
       /\ ret.events = LastN(EventsOfEach(WithoutNonJson(call.lines)),
                             EVENTS_RETURNED)
  /\ call.op = "activity" =>
       LET scanned == ActivityLines(call.lines, call.tail_size) IN
         /\ ret.status = 200
         /\ ret.events = ActivityScan(WithoutNonJson(scanned))
         /\ ret.events = EventsOfEach(WithoutNonJson(scanned))
         /\ call.tail_size >= Len(Encode(call.lines)) =>
              ret.events = EventsOfEach(WithoutNonJson(call.lines))

\* The second of three lines is no JSON; the first and the third both gave
\* events.
C11_Witness ==
  /\ IsTimeline
  /\ Len(call.lines) = 3
  /\ call.lines[2].json = "invalid"
  /\ call.tail_size = 0 \/ call.tail_size >= Len(Encode(call.lines))
  /\ \E i \in 1..Len(ret.events) : ret.events[i].ts = 1
  /\ \E i \in 1..Len(ret.events) : ret.events[i].ts = 3

\* The one 'result' event that joins the text blocks of a toolResult record.
IsJoined(e) == e.type = "result" /\ e.blocks # <<>>

IsSubagents == call.op = "subagents" /\ ret.status = 200

\* C12: a sub-agent is 'active' exactly when now - updatedAt is under five
\* minutes, 'idle' exactly when it is at least five and under thirty
\* minutes, 'stale' otherwise (an age of exactly five minutes is idle, of
\* exactly thirty minutes stale).
C12_StatusByAge ==
  IsSubagents =>
    \A i \in 1..Len(ret.subagents) :
      LET s == ret.subagents[i]
          age == call.now_ms - s.updatedAt IN
        IF s.updatedAt = 0 THEN s.status = "stale"
        ELSE /\ s.status = "active" <=> age < 300000
             /\ s.status = "idle" <=> (age >= 300000 /\ age < 1800000)
             /\ s.status = "stale" <=> age >= 1800000

\* One sub-agent updated exactly five minutes ago and one exactly thirty.
C12_Witness ==
  /\ IsSubagents
  /\ \E i \in 1..Len(ret.subagents) :
       /\ call.now_ms - ret.subagents[i].updatedAt = 300000
       /\ ret.subagents[i].status = "idle"
  /\ \E i \in 1..Len(ret.subagents) :
       /\ call.now_ms - ret.subagents[i].updatedAt = 1800000
       /\ ret.subagents[i].status = "stale"

\* C20: when the session index is absent or is no valid JSON, the sub-agent
\* list request answers normally with an empty list and zero active, idle,
\* stale and total counts.
C20_UnreadableIndexIsEmptyList ==
  (call.op = "subagents" /\ call.index.kind \in {"missing", "not_json"}) =>
    /\ ret.status = 200
    /\ ret.subagents = <<>>
    /\ ret.counts = [active |-> 0, idle |-> 0, stale |-> 0, total |-> 0]

\* A request that found an index file that json.load rejects.
C20_Witness ==
  /\ call.op = "subagents"
  /\ call.index.kind = "not_json"
  /\ ret.op = "subagents"
  /\ ret.counts.total = 0

\* The transcript lines the summary of the i-th sub-agent was made from.
ScannedOf(s) ==
  LET entry == call.index.entries[s.key] IN
    IF entry.sid # "" /\ entry.file.exists
    THEN ScannedTail(entry.file.lines) ELSE <<>>

\* What the two summaries are about: tool blocks, and the non-empty text
\* blocks of assistant messages.
Wanted(what, rec, b) ==
  IF what = "tool" THEN b.btype \in {"tool_use", "toolCall"}
  ELSE b.btype = "text" /\ rec.role = "assistant" /\ b.text # "empty"

\* The wanted blocks of the scanned lines in causal order: line after line,
\* and within a line block after block.
RECURSIVE RefsOfLine(_, _, _)
RefsOfLine(rec, i, what) ==
  IF i > Len(rec.blocks) THEN <<>>
  ELSE (IF Wanted(what, rec, rec.blocks[i])
        THEN <<BlockRef(rec.ts, i)>> ELSE <<>>)
       \o RefsOfLine(rec, i + 1, what)
RECURSIVE RefsOf(_, _)
RefsOf(scanned, what) ==
  IF scanned = <<>> THEN <<>>
  ELSE (IF Head(scanned).json = "object" /\ Head(scanned).type = "message"
           /\ Head(scanned).form = "list"
        THEN RefsOfLine(Head(scanned), 1, what) ELSE <<>>)
       \o RefsOf(Tail(scanned), what)

\* C17: recentTools holds at most five entries, and they are the tool
\* blocks that come last in the scanned tail in causal order: no tool block
\* later than a listed one is left out.
C17_RecentToolsAreTheLast ==
  IsSubagents =>
    \A i \in 1..Len(ret.subagents) :
      LET s == ret.subagents[i] IN
        /\ Len(s.recentTools) <= 5
        /\ s.recentTools = LastN(RefsOf(ScannedOf(s), "tool"), 5)

\* C18: lastText is the assistant text block that comes last in causal
\* order among the non-empty assistant text blocks of the scanned tail.
C18_LastTextIsTheLast ==
  IsSubagents =>
    \A i \in 1..Len(ret.subagents) :
      LET s == ret.subagents[i]
          texts == RefsOf(ScannedOf(s), "text") IN
        s.lastText = IF texts = <<>> THEN NoText ELSE texts[Len(texts)]

(***************************************************************************)
(* Trends and cost warnings.                                               *)
(***************************************************************************)
\* Means as exact fractions: the mean of the last three buckets of the
\* window is s / 3, the mean of the k buckets before them o / k.
RecentSum(series) == SumSeq(LastN(LastN(series, 7), 3))
OlderCount(series) == Len(LastN(series, 7)) - 3
OlderSum(series) ==
  SumSeq(SubSeq(LastN(series, 7), 1, OlderCount(series)))

\* C15: the trend is 'insufficient_data' exactly when there are fewer than
\* three day buckets; otherwise, over the up to seven most recent buckets,
\* it is 'increasing' exactly when the mean of the last three exceeds 1.2
\* times the mean of the buckets before them, 'decreasing' exactly when it
\* is below 0.8 times that mean, and 'stable' otherwise (with no bucket
\* before the last three there is nothing to exceed: 'stable').
C15_TrendByMeans ==
  call.op = "trends" =>
    LET s == RecentSum(call.series)
        k == OlderCount(call.series)
        o == OlderSum(call.series) IN
      /\ ret.trend = "insufficient_data" <=> Len(call.series) < 3
      /\ Len(call.series) >= 3 =>
           /\ ret.trend = "increasing" <=> (k > 0 /\ 10 * k * s > 36 * o)
           /\ ret.trend = "decreasing" <=> (k > 0 /\ 10 * k * s < 24 * o)
           /\ ret.trend \in {"increasing", "decreasing", "stable"}

\* The warnings of one period.
OfPeriod(warnings, period) ==
  SelectSeq(warnings, LAMBDA w : w.type \in {"high_" \o period,
                                              "elevated_" \o period})
PeriodRule(warnings, period, cost, high, elevated) ==
  LET ws == OfPeriod(warnings, period) IN
    /\ Len(ws) <= 1
    /\ (\E i \in 1..Len(ws) : ws[i].level = "error") <=> cost > high
    /\ (\E i \in 1..Len(ws) : ws[i].level = "warning")
         <=> (cost > elevated /\ ~(cost > high))

\* C16: for each of today, week and month there is at most one warning: of
\* level 'error' exactly when the cost exceeds the high threshold, of level
\* 'warning' exactly when it exceeds the elevated threshold only, none
\* otherwise; 12.00 today gives one daily warning, an error, and costs of
\* 0.50 with a trend that is not increasing give no warning at all.
C16_OneWarningPerPeriod ==
  call.op = "warnings" =>
    /\ PeriodRule(ret.warnings, "daily_cost", call.today_cost, 1000, 500)
    /\ PeriodRule(ret.warnings, "weekly_cost", call.week_cost, 5000, 2500)
    /\ PeriodRule(ret.warnings, "monthly_cost", call.month_cost, 20000,
                  10000)
    /\ call.today_cost = 1200 =>
         OfPeriod(ret.warnings, "daily_cost")
           = <<[type |-> "high_daily_cost", level |-> "error"]>>
    /\ (/\ call.today_cost = 50 /\ call.week_cost = 50
        /\ call.month_cost = 50
        /\ call.trend_data.trend # "increasing") => ret.warnings = <<>>

\* 12.00 today, the week just over its elevated threshold: one error for
\* the day and one warning for the week.
C16_Witness ==
  /\ call.op = "warnings"
  /\ call.today_cost = 1200
  /\ call.week_cost = 2501
  /\ Len(OfPeriod(ret.warnings, "daily_cost")) = 1
  /\ Len(OfPeriod(ret.warnings, "weekly_cost")) = 1

(***************************************************************************)
(* The retention sweep and the lists over a run.                           *)
(***************************************************************************)
SweepPositions == {"exp_read", "exp_write", "exp_unlock"}
\* The flush thread leaves _expire_old_entries, by return or by exception.
SweepEnds ==
  /\ pc[FlushThread] \in SweepPositions
  /\ pc'[FlushThread] \notin SweepPositions

\* The elements the claim speaks of: dicts with a numeric timestamp or with
\* none.
Timed(lst) ==
  SelectSeq(lst, LAMBDA e : e.shape \in {"sample", "no_timestamp"})

\* C21: after a retention sweep run at time t no category holds a sample
\* whose timestamp is at or before t minus STORE_RETENTION_DAYS (no
\* timestamp counting as 0), and every sample newer than that which was in
\* a category before the sweep is still there, in the same order.
C21_SweepKeepsExactlyTheNewer ==
  [][SweepEnds =>
       \A c \in Categories :
         Timed(metrics_store'[c]) =
           SelectSeq(Timed(flush.before[c]),
                     LAMBDA e : e.timestamp > flush.cutoff)]_vars
C23_RealFailure ==
  call.op = "card" =>
    LET a == call.agent
        failed == ret.sc = "failed" IN
      /\ failed <=> (/\ a.status = "stale"
                     /\ a.abortedLastRun
                     /\ a.outputTokens \in {Number(0), NullTokens})
      /\ (ret.group = "failed") <=> failed
      /\ (a.status = "stale" /\ a.abortedLastRun
          /\ a.outputTokens = Number(5)) => ~failed
      /\ a.status = "active" => ~failed

\* A stale, aborted session without output tokens is shown as failed.
C23_Witness ==
  /\ call.op = "card"
  /\ call.agent = Agent("stale", TRUE, Number(0))
  /\ ret.sc = "failed"

(***************************************************************************)
(* The log stream.                                                         *)
(***************************************************************************)
\* C24: once the client of a log stream has disconnected, the tail process
\* started for the stream is eventually terminated, whether or not another
\* line is ever written to the log.
C24_TailEndsAfterDisconnect ==
  \A t \in Requests :
    (streams[t].client = "gone") ~> (streams[t].proc # "running")

(***************************************************************************)
(* Records with a timestamp that cannot be parsed.                         *)
(***************************************************************************)
\* A usage message that is well-formed but for its timestamp, a string
\* datetime.fromisoformat rejects.
IsUnparsedTimeUsage(line) ==
  /\ line.ts.form = "bad_str"
  /\ LineOutcome([line EXCEPT !.ts = IsoTime(0)]) = "count"

\* C25: a record whose timestamp string cannot be parsed is not dropped; in
\* the usage aggregation its tokens are counted.  (Stated for the files
\* whose scan is not cut short.)
C25_UnparsedTimestampKept ==
  lastScan.valid =>
    \A f \in 1..Len(lastScan.input) :
      ~FileRaises(lastScan.input[f]) =>
        \A i \in 1..Len(lastScan.input[f]) :
          IsUnparsedTimeUsage(lastScan.input[f][i])
            => Contains(lastScan.counted, lastScan.input[f][i])

(***************************************************************************)
(* The tail reader and the lines whole in its window.                      *)
(***************************************************************************)
\* The numbers of the file's lines that hold a character, and the characters
\* of one of them.
LinesWithContent(data) ==
  {data[i].line : i \in {h \in 1..Len(data) : data[h].kind = "c"}}
LineChars(data, n) ==
  SelectSeq(data, LAMBDA c : c.kind = "c" /\ c.line = n)
\* Every character of line n stands after the first `start` bytes.
WhollyAfter(data, n, start) ==
  \A i \in 1..Len(data) :
    (data[i].kind = "c" /\ data[i].line = n) => i > start

\* C26: for every file and byte budget N the tail reader returns every line
\* that lies wholly within the last N bytes of the file: the whole file when
\* it is no larger than N, and otherwise the first line of the window too
\* when the window begins exactly where that line begins.
C26_WholeLinesInWindowReturned ==
  call.op = "tail" =>
    \A n \in LinesWithContent(call.data) :
      WhollyAfter(call.data, n, TailStart(Len(call.data), call.tail_size))
        => Contains(ret.lines, LineChars(call.data, n))

(***************************************************************************)
(* The snapshot as a cut of the store.                                     *)
(***************************************************************************)
\* The temporary file holds the whole snapshot of this cycle.
SnapshotWritten ==
  /\ pc[FlushThread] = "save_replace"
  /\ disk[TmpPath] = JsonDump(flush.data)

\* C27: every snapshot written is a consistent cut of the store: its lists
\* are the store's lists at one instant and its _last_received is the value
\* that stood at that same instant, whatever requests append meanwhile.
C27_SnapshotIsConsistentCut ==
  SnapshotWritten => flush.data.last_received = flush.seen

(***************************************************************************)
(* The discipline of the metrics lock.                                     *)
(***************************************************************************)
\* Positions at a with _metrics_lock line, and positions inside a block.
LockRequests == {"add_lock", "exp_lock", "save_lock", "otel_lock", "otel_lock2"}
LockHeldAt == AddCritical \cup FlushCritical \cup {"otel_fold", "otel_runs"}

InStore(c, v) ==
  \E i \in 1..Len(metrics_store[c]) :
    metrics_store[c][i].shape = "sample" /\ metrics_store[c][i].value = v
InSnapshot(c, v) ==
  /\ disk[MetricsPath].kind = "object"
  /\ \E i \in 1..Len(disk[MetricsPath].cats[c]) :
       /\ disk[MetricsPath].cats[c][i].shape = "sample"
       /\ disk[MetricsPath].cats[c][i].value = v

\* C29: while the process runs and the disk writes succeed, every flush
\* cycle reaches the snapshot step, and so a sample that is in the store
\* when a cycle begins and stays there is in the persisted snapshot in the
\* end, whatever the store was started with.
C29_EveryCycleSnapshots ==
  /\ (pc[FlushThread] = "exp_cutoff") ~> (pc[FlushThread] = "save_mkdir")
  /\ \A c \in PushedCategories : \A v \in 1..MaxAppends :
       (pc[FlushThread] = "exp_cutoff" /\ InStore(c, v))
         ~> (InSnapshot(c, v) \/ ~InStore(c, v) \/ lastCycle = "save_failed")

(***************************************************************************)
(* The sub-agent list and its counts.                                      *)
(***************************************************************************)
\* The index's keys that contain ':subagent:' (a key is named by its place
\* in the file).
SubagentKeys(index) ==
  {n \in 1..Len(index.entries) : index.entries[n].sub}
Statuses == {"active", "idle", "stale"}

====
